---- MODULE Spec2Model ----
(***************************************************************************)
(* Checkout lifecycle of @funnelfox/billing: CheckoutInstance (the         *)
(* orchestrator), EventEmitter (the event channel), PrimerWrapper (the     *)
(* tokenization provider adapter) and the result handling of APIClient.    *)
(*                                                                         *)
(* Execution is the JavaScript event loop.  One action is one run of code  *)
(* between two suspension points: the synchronous part of a call up to its *)
(* first pending await, or the continuation after an await.  A network     *)
(* response, a provider callback and a timer are tasks; a continuation of  *)
(* an await on an already settled promise is a microtask, and no task      *)
(* starts while a microtask is pending.                                    *)
(***************************************************************************)
EXTENDS Integers, Sequences, FiniteSets, TLC

VARIABLES
  inst,          \* i -> the CheckoutInstance object with its PrimerWrapper
  sessionCache,  \* CheckoutInstance.sessionCache (static): cacheKey -> response
  headless,      \* PrimerWrapper.headless (static) and the handlers it was created with
  ops,           \* provider tokenize/resume callbacks: id -> activation record
  fx,            \* what the last step did, in order (emits, handler calls, provider signals)
  ret,           \* the activation record of the callback that returned in the last step
  defaultConfig, \* the module's defaultConfig, set by configure()
  req,           \* one APIClient.request call: its attempts, waits and outcome
  sdk            \* the provider script loader: its module variables, the tags, the callers

vars == <<inst, sessionCache, headless, ops, fx, ret, defaultConfig, req, sdk>>

(***************************************************************************)
(* Bounds                                                                  *)
(***************************************************************************)
MaxCalls == 2        \* provider callbacks (tokenize + resume) in one run
MaxDestroyCalls == 2 \* destroy() calls made by the application on one instance
MaxPriceCalls == 2   \* updatePrice() calls made by the application on one instance
MaxListenCalls == 3  \* on() and off() calls made by the application on one instance
MaxItems == 3        \* payment methods the provider reports for one session
MaxLoadCalls == 3    \* ensurePrimerLoaded() calls on one page
TimeoutPolls == 2    \* poll intervals that make up the timeout of waitForPrimer
MaxSubmitCalls == 2  \* clicks on the card form's submit button of one instance

Inst == {1, 2}       \* the first checkout created on the page and a later one
OpId == 1..MaxCalls

Keys == {"k1", "k2"}            \* session fingerprints orgId-priceId-externalId-email
Orders == {"ord_1", "ord_2"}    \* order_id values the backend returns
NoVal == "null"                 \* null / undefined

PaymentCard == "PAYMENT_CARD"
PayPal == "PAYPAL"
GooglePay == "GOOGLE_PAY"
ApplePay == "APPLE_PAY"

(***************************************************************************)
(* Listeners.  A handler is known by its identity; the handlers in         *)
(* Throwing raise whenever they are invoked.                               *)
(***************************************************************************)
Bridges == {"onSuccess", "onError", "onStatusChange", "onDestroy"}
Throwing == {"onStatusChange", "onSuccess", "hB"}

EventNames == {"success", "error", "status-change", "destroy", "input-error",
               "loader-change", "method-render", "method-render-error",
               "start-purchase", "purchase-failure", "purchase-completed",
               "purchase-cancelled", "methods-available"}

(* The application listens with on() to the event that has no callback     *)
(* option; the others reach it through the bridged callbacks.  It          *)
(* registers either nothing or a handler that raises and then one that     *)
(* returns.                                                                *)
AppEvent == "purchase-failure"
AppListenerChoices == {<<>>, <<"hB", "hA">>}

NoListeners == [e \in EventNames |-> <<>>]

(***************************************************************************)
(* Effects of a step.  Every record has the same fields:                   *)
(*   k   "emit" | "call" | "caught" | "primer" | "cleanup" | "warn" |      *)
(*       "settle" | "request" | "backend" | "removeAll" | "timer" |        *)
(*       "callback" | "awaited" | "cache" | "off" | "api"                  *)
(*   ev  event name, provider signal or promise outcome                    *)
(*   h   the handler invoked; for an emit, what emit returned              *)
(*   a,b the arguments                                                     *)
(*   st  the instance's state, as getStatus() reads it at that moment      *)
(*   oid the instance's orderId at that moment                             *)
(*   n   number of handlers registered when the event was emitted; for a   *)
(*       provider signal or a backend result, the callback it belongs to   *)
(***************************************************************************)
Eff(k, ev, h, a, b, o, n) ==
  [k |-> k, ev |-> ev, h |-> h, a |-> a, b |-> b, st |-> o.state,
   oid |-> o.orderId, n |-> n]

(* An execution context: the instance o being run on, the effects so far   *)
(* and the exception in flight ("none" when the code is running normally). *)
Ctx(o) == [o |-> o, fx |-> <<>>, exc |-> "none"]

Do(c, e) == [c EXCEPT !.fx = Append(@, e)]
Throw(c, err) == [c EXCEPT !.exc = err]
Caught(c) == [c EXCEPT !.exc = "none"]

(***************************************************************************)
(* EventEmitter                                                            *)
(***************************************************************************)
(* The wrappers once() makes for the handlers hA and hR.                   *)
OnceWrappers == {"once(hA)", "once(hR)"}

on(c, eventName, handler) ==
  [c EXCEPT !.o.events[eventName] = Append(@, handler)]

listenerCount(o, eventName) == Len(o.events[eventName])

(* handlers.indexOf(handler), counted from 1; 0 when there is none.        *)
indexOf(handlers, handler) ==
  IF \E k \in 1..Len(handlers) : handlers[k] = handler
  THEN CHOOSE k \in 1..Len(handlers) :
         /\ handlers[k] = handler
         /\ \A j \in 1..(k - 1) : handlers[j] # handler
  ELSE 0

(* handlers.splice(k, 1)                                                   *)
Without(s, k) == SubSeq(s, 1, k - 1) \o SubSeq(s, k + 1, Len(s))

(* off that drops every handler of the event, whatever handler is given.   *)
off_dropsEvent(c, eventName, handler) ==
  [c EXCEPT !.o.events[eventName] = <<>>]

(* off(eventName, handler); handler is NoVal when the argument is left     *)
(* out.  An event without handlers has no entry in _events.                *)
off(c, eventName, handler) ==
  LET handlers == c.o.events[eventName]
      index == indexOf(handlers, handler)
  IN IF handlers = <<>> THEN c
     ELSE IF handler = NoVal THEN [c EXCEPT !.o.events[eventName] = <<>>]
     ELSE IF index # 0 THEN [c EXCEPT !.o.events[eventName] = Without(@, index)]
     ELSE c

removeAllListeners(c) ==
  Do([c EXCEPT !.o.events = NoListeners],
     Eff("removeAll", "", "", "", "", c.o, 0))

RECURSIVE invoke_stopsAtThrow(_, _, _, _, _)
(* emit without the try/catch around each handler: the first handler that  *)
(* raises ends the loop.                                                   *)
invoke_stopsAtThrow(c, handlers, eventName, a, b) ==
  IF handlers = <<>> THEN c
  ELSE LET h == Head(handlers)
           c1 == Do(c, Eff("call", eventName, h, a, b, c.o, 0))
       IN IF h \in Throwing THEN c1
          ELSE invoke_stopsAtThrow(c1, Tail(handlers), eventName, a, b)

RECURSIVE emit(_, _, _, _)
RECURSIVE invoke(_, _, _, _, _)
(* The for loop of emit over the snapshot of handlers: each handler is     *)
(* applied inside try/catch, so one that raises is logged and the loop     *)
(* goes on.  A wrapper made by once() first unregisters itself and then    *)
(* applies its handler; the handler hR emits the event it receives.        *)
invoke(c, handlers, eventName, a, b) ==
  IF handlers = <<>> THEN c
  ELSE LET h == Head(handlers)
           c1 == Do(c, Eff("call", eventName, h, a, b, c.o, 0))
           c2 == IF h \in OnceWrappers THEN off(c1, eventName, h) ELSE c1
           c3 == IF h = "once(hR)" THEN emit(c2, eventName, a, b) ELSE c2
           c4 == IF h \in Throwing
                 THEN Do(c3, Eff("caught", eventName, h, a, b, c.o, 0))
                 ELSE c3
       IN invoke(c4, Tail(handlers), eventName, a, b)

(* emit that goes through the handlers from the last registered one.       *)
emit_lastFirst(c, eventName, a, b) ==
  LET registered == c.o.events[eventName]
      handlers == [k \in 1..Len(registered) |->
                     registered[Len(registered) + 1 - k]]
  IN IF handlers = <<>>
     THEN Do(c, Eff("emit", eventName, "false", a, b, c.o, 0))
     ELSE invoke(Do(c, Eff("emit", eventName, "true", a, b, c.o, Len(handlers))),
                 handlers, eventName, a, b)

emit(c, eventName, a, b) ==
  LET handlers == c.o.events[eventName]
  IN IF handlers = <<>>
     THEN Do(c, Eff("emit", eventName, "false", a, b, c.o, 0))
     ELSE invoke(Do(c, Eff("emit", eventName, "true", a, b, c.o, Len(handlers))),
                 handlers, eventName, a, b)

(***************************************************************************)
(* CheckoutInstance                                                        *)
(***************************************************************************)
(* _setState without the comparison: it emits status-change even when the  *)
(* state is already newState.                                              *)
_setState_unconditional(c, newState) ==
  emit([c EXCEPT !.o.state = newState], "status-change", newState, c.o.state)

_setState(c, newState) ==
  IF c.o.state # newState
  THEN emit([c EXCEPT !.o.state = newState], "status-change", newState, c.o.state)
  ELSE c

RECURSIVE bridge(_, _)
bridge(c, cbs) ==
  IF cbs = <<>> THEN c
  ELSE bridge(on(c, Head(cbs)[1], Head(cbs)[2]), Tail(cbs))

(* The callback options in the order _setupCallbackBridges registers them. *)
_setupCallbackBridges(c, callbacks) ==
  bridge(c, SelectSeq(<< <<"success", "onSuccess">>, <<"error", "onError">>,
                         <<"status-change", "onStatusChange">>,
                         <<"destroy", "onDestroy">> >>,
                      LAMBDA p : p[2] \in callbacks))

(* No response: the value of a cache miss.                                 *)
NoSession == [status |-> "none", order_id |-> NoVal, client_token |-> NoVal]

(* No callback: a free activation record.                                  *)
NoOp ==
  [pc |-> "none", kind |-> "none", i |-> 0, result |-> "none", timer |-> FALSE,
   challenge |-> FALSE, settled |-> "pending", pf |-> 0, succ |-> 0, err |-> 0,
   hs |-> 0, hf |-> 0, cont |-> 0]

(* The priceId of the checkoutConfig whose fingerprint is key.             *)
PriceOf(key) == IF key = "k1" THEN "price_1" ELSE "price_2"

Callers == {1, 2}    \* concurrent callers of ensurePrimerLoaded()

(* The loader module before any call: window.Primer absent, no tag in the  *)
(* document.  cssP and scriptP are the promises of injectCSS and           *)
(* injectScript of the load in progress; elapsed counts the polls of       *)
(* waitForPrimer, age the poll intervals since the load started, both up   *)
(* to just past the timeout.                                               *)
NotLoaded ==
  [primer |-> FALSE, isLoaded |-> FALSE, loadingPromise |-> "null",
   css |-> "none", script |-> "none", cssP |-> "none", scriptP |-> "none",
   wait |-> "none", elapsed |-> 0, age |-> 0, loads |-> 0,
   cssInjected |-> 0, scriptInjected |-> 0,
   callers |-> [c \in Callers |-> "idle"], calls |-> 0]

(* An instance slot before `new CheckoutInstance`.                         *)
Absent ==
  [pc |-> "absent", state |-> "initializing", orderId |-> NoVal,
   clientToken |-> NoVal, isDestroyed |-> FALSE, counter |-> 0,
   events |-> NoListeners,
   cacheKey |-> "k1", containerFound |-> TRUE, defaultSkin |-> FALSE,
   onInitialized |-> "none", cached |-> FALSE,
   sessionResponse |-> NoSession, hl |-> 0, initLog |-> <<>>,
   isInitialized |-> FALSE, destroyCallbacks |-> <<>>,
   availableMethods |-> <<>>, rendering |-> {},
   destroyCalls |-> 0, destroying |-> <<>>,
   priceId |-> "price_1", priceCalls |-> 0, updates |-> <<>>,
   listenCalls |-> 0, submitCalls |-> 0, submitting |-> 0,
   items |-> <<>>, wasPaymentProcessedStarted |-> FALSE, selected |-> FALSE, callsAtSelect |-> 0,
   config |-> [orgId |-> "org_inline", baseUrl |-> "https://billing.funnelfox.com",
               region |-> "default"]]

constructor(key, callbacks, containerFound, defaultSkin, onInitialized) ==
  _setupCallbackBridges(
    Ctx([Absent EXCEPT !.pc = "constructed", !.cacheKey = key,
                       !.priceId = PriceOf(key),
                       !.containerFound = containerFound,
                       !.defaultSkin = defaultSkin,
                       !.onInitialized = onInitialized]),
    callbacks)

(***************************************************************************)
(* APIClient: response envelopes and their interpretation                  *)
(***************************************************************************)
SessionResponses ==
  {[status |-> "success", order_id |-> o, client_token |-> "tok_s"] : o \in Orders}
  \cup {[status |-> "error", order_id |-> NoVal, client_token |-> NoVal]}

processSessionResponse(response) ==
  IF response.status = "error"
  THEN [exc |-> "APIError:session", orderId |-> NoVal, clientToken |-> NoVal]
  ELSE [exc |-> "none", orderId |-> response.order_id,
        clientToken |-> response.client_token]

(***************************************************************************)
(* PrimerWrapper: the payment methods of a headless session                *)
(***************************************************************************)
ALLOWED_PAYMENT_METHODS == <<GooglePay, ApplePay, PayPal, PaymentCard>>

Range(s) == {s[k] : k \in 1..Len(s)}

(* What the provider reports to onAvailablePaymentMethodsLoad: the types   *)
(* of its items, in its order.                                             *)
ProviderMethodSets == {<<PaymentCard>>, <<PaymentCard, PayPal>>}

(* A filter that keeps Google Pay next to Apple Pay.                       *)
onAvailablePaymentMethodsLoad_keepsGooglePay(items) ==
  SelectSeq(ALLOWED_PAYMENT_METHODS, LAMBDA m : m \in Range(items))

(* ALLOWED_PAYMENT_METHODS.filter(method => items.some(...)): some() stops *)
(* at the first item of the method's type, and isApplePayAvailable is set  *)
(* when one of the items it visited is Apple Pay.                          *)
onAvailablePaymentMethodsLoad(items) ==
  LET match(method) == {k \in 1..Len(items) : items[k] = method}
      visited(method) ==
        IF match(method) = {} THEN 1..Len(items)
        ELSE 1..(CHOOSE k \in match(method) : \A j \in match(method) : k <= j)
      isApplePayAvailable ==
        \E n \in 1..Len(ALLOWED_PAYMENT_METHODS) :
          \E k \in visited(ALLOWED_PAYMENT_METHODS[n]) : items[k] = ApplePay
      allowed == SelectSeq(ALLOWED_PAYMENT_METHODS, LAMBDA m : match(m) # {})
  IN IF isApplePayAvailable
     THEN SelectSeq(allowed, LAMBDA m : m # GooglePay)
     ELSE allowed

(***************************************************************************)
(* CheckoutInstance.initialize                                             *)
(***************************************************************************)
SkinEvents == <<"input-error", "status-change", "error", "loader-change",
                "destroy", "method-render", "success", "start-purchase",
                "purchase-failure", "purchase-completed", "methods-available">>

RECURSIVE registerSkin(_, _)
registerSkin(c, evs) ==
  IF evs = <<>> THEN c
  ELSE registerSkin(on(c, Head(evs), "skin"), Tail(evs))

getDefaultSkinCheckoutOptions(c) == registerSkin(c, SkinEvents)

(* A catch block of initialize that sets the state and re-raises without   *)
(* emitting `error`.                                                       *)
initializeCatch_silent(c, error) ==
  LET c1 == _setState(Caught(c), "error")
      c3 == Do(c1, Eff("settle", "rejected", "initialize", error, "", c1.o, 0))
  IN [c3 EXCEPT !.o.pc = "rejected"]

(* catch and finally of initialize: the promise rejects with the error.    *)
initializeCatch(c, error) ==
  LET c1 == _setState(Caught(c), "error")
      c2 == emit(c1, "error", error, "")
      c3 == Do(c2, Eff("settle", "rejected", "initialize", error, "", c2.o, 0))
  IN [c3 EXCEPT !.o.pc = "rejected"]

(* The end of the try block of initialize: the state is set and the        *)
(* onInitialized option, when given, is called; the promise resolves       *)
(* unless that call raises.                                                *)
initializeReady(c) ==
  LET c1 == _setState([c EXCEPT !.o.isInitialized = TRUE], "ready")
      c2 == IF c1.o.onInitialized = "none" THEN c1
            ELSE Do(c1, Eff("callback", "onInitialized", "", "", "", c1.o, 0))
  IN IF c1.o.onInitialized = "throws"
     THEN initializeCatch(c2, "Error:onInitialized")
     ELSE [Do(c2, Eff("settle", "resolved", "initialize", "", "", c2.o, 0))
             EXCEPT !.o.pc = "resolved"]

(* createSession that stores the client token but not the order id.        *)
createSessionDone_keepsOrderId(c, sessionResponse) ==
  LET sessionData == processSessionResponse(sessionResponse)
      c1 == [c EXCEPT !.o.sessionResponse = sessionResponse]
  IN IF sessionData.exc # "none"
     THEN initializeCatch(c1, sessionData.exc)
     ELSE [c1 EXCEPT !.o.clientToken = sessionData.clientToken,
                     !.o.pc = "primer"]

(* createSession from the point where the response is known.               *)
createSessionDone(c, sessionResponse) ==
  LET sessionData == processSessionResponse(sessionResponse)
      c1 == [c EXCEPT !.o.sessionResponse = sessionResponse]
  IN IF sessionData.exc # "none"
     THEN initializeCatch(c1, sessionData.exc)
     ELSE [c1 EXCEPT !.o.orderId = sessionData.orderId,
                     !.o.clientToken = sessionData.clientToken,
                     !.o.pc = "primer"]

(* What initialize() has emitted and how its promise settled.              *)
Logged(f) == SelectSeq(f, LAMBDA e : e.k \in {"emit", "settle"})

(* The step ran on instance i and left it as c.o with effects c.fx; until  *)
(* the instance is handed to the application the log of initialize grows.  *)
Commit(i, c) ==
  /\ inst' = [inst EXCEPT ![i] =
        IF c.o.pc \in {"live", "absent"} THEN c.o
        ELSE [c.o EXCEPT !.initLog = @ \o Logged(c.fx)]]
  /\ fx' = c.fx

(* A continuation that is already runnable: no task starts before it ran.  *)
MicrotaskPending ==
  \/ \E i \in Inst :
       \/ inst[i].pc \in {"primer", "loadPrimer", "resolved"}
       \/ inst[i].pc = "headless" /\ headless.st[inst[i].hl] \in {"resolved", "rejected"}
       \/ inst[i].destroying # <<>>
  \/ \E p \in OpId : ops[p].pc = "result"


(* A session cache whose lookups always miss.                              *)
sessionCacheGet_miss(cache, cacheKey) == NoSession

(* CheckoutInstance.sessionCache.get(cacheKey)                             *)
sessionCacheGet(cache, cacheKey) == cache[cacheKey]

(* new CheckoutInstance, then initialize() up to its first pending await.  *)
(* A cached response is used without a request.                            *)
initialize(key, callbacks, containerFound, defaultSkin, onInitialized) ==
  LET c0 == _setState(constructor(key, callbacks, containerFound, defaultSkin,
                                  onInitialized),
                      "initializing")
      cachedResponse == sessionCacheGet(sessionCache, key)
  IN IF cachedResponse.status # "none"
     THEN createSessionDone([c0 EXCEPT !.o.cached = TRUE], cachedResponse)
     ELSE Do([c0 EXCEPT !.o.pc = "session"],
             Eff("request", "create_client_session", "", key, "", c0.o, 0))

(* createCheckout(options) with an inline orgId.                           *)
CreateCheckout(i, key, callbacks, containerFound, defaultSkin, onInitialized) ==
  /\ inst[i].pc = "absent"
  /\ \A j \in Inst : j < i => inst[j].pc # "absent"
  /\ Commit(i, initialize(key, callbacks, containerFound, defaultSkin,
                          onInitialized))
  /\ UNCHANGED <<defaultConfig, sdk, req, sessionCache, headless, ops>> /\ ret' = NoOp

(* The session request returns an envelope: it is cached, then processed.  *)
SessionResponse(i, sessionResponse) ==
  /\ ~MicrotaskPending
  /\ inst[i].pc = "session"
  /\ sessionCache' = [sessionCache EXCEPT ![inst[i].cacheKey] = sessionResponse]
  /\ Commit(i, createSessionDone(Ctx(inst[i]), sessionResponse))
  /\ UNCHANGED <<defaultConfig, sdk, req, headless, ops>> /\ ret' = NoOp

(* The session request fails after its retries.                            *)
SessionRequestFails(i) ==
  /\ ~MicrotaskPending
  /\ inst[i].pc = "session"
  /\ Commit(i, initializeCatch(Ctx(inst[i]), "NetworkError"))
  /\ UNCHANGED <<defaultConfig, sdk, req, sessionCache, headless, ops>> /\ ret' = NoOp

(* _initializePrimerCheckout up to createHeadlessCheckout's first await.   *)
InitializePrimerCheckout(i) ==
  /\ inst[i].pc = "primer"
  /\ LET c0 == Ctx(inst[i])
         c1 == IF ~c0.o.containerFound
               THEN initializeCatch(c0, "CheckoutError:container")
               ELSE LET c2 == IF c0.o.defaultSkin
                              THEN getDefaultSkinCheckoutOptions(c0) ELSE c0
                    IN IF headless.cur # 0
                       THEN [c2 EXCEPT !.o.pc = "headless", !.o.hl = headless.cur]
                       ELSE [c2 EXCEPT !.o.pc = "loadPrimer"]
     IN Commit(i, c1)
  /\ UNCHANGED <<defaultConfig, sdk, req, sessionCache, headless, ops>> /\ ret' = NoOp

(* createHeadlessCheckout after ensurePrimerLoaded: Primer.createHeadless  *)
(* is called with this instance's token and handlers, and its promise is   *)
(* stored in the static field.                                             *)
CreateHeadless(i) ==
  /\ inst[i].pc = "loadPrimer"
  /\ headless' = [headless EXCEPT !.cur = i, !.st[i] = "pending",
                                  !.token[i] = inst[i].clientToken]
  /\ Commit(i, Do([Ctx(inst[i]) EXCEPT !.o.pc = "headless", !.o.hl = i],
                  Eff("request", "createHeadless", "", inst[i].clientToken, "",
                      inst[i], 0)))
  /\ UNCHANGED <<defaultConfig, sdk, req, sessionCache, ops>> /\ ret' = NoOp

(* The provider finishes createHeadless and start() for the session made   *)
(* by instance j, reporting the available methods to that wrapper.         *)
HeadlessStarts(j, items) ==
  /\ ~MicrotaskPending
  /\ headless.st[j] = "pending"
  /\ headless' = [headless EXCEPT !.st[j] = "resolved"]
  /\ inst' = [inst EXCEPT ![j].availableMethods = onAvailablePaymentMethodsLoad(items),
                          ![j].items = items]
  /\ fx' = IF onAvailablePaymentMethodsLoad(items) # <<>> THEN <<>>
           ELSE <<Eff("thrown", "onAvailablePaymentMethodsLoad", "",
                      "PrimerError:No allowed payment methods found", "",
                      inst[j], 0)>>
  /\ UNCHANGED <<defaultConfig, sdk, req, sessionCache, ops>> /\ ret' = NoOp

HeadlessFails(j) ==
  /\ ~MicrotaskPending
  /\ headless.st[j] = "pending"
  /\ headless' = [headless EXCEPT !.st[j] = "rejected"]
  /\ fx' = <<>>
  /\ UNCHANGED <<defaultConfig, sdk, req, inst, sessionCache, ops>> /\ ret' = NoOp

(* renderCheckout after initializeHeadlessCheckout: every available method *)
(* starts rendering; with none, Promise.all resolves at once.              *)
RenderCheckout(i) ==
  /\ inst[i].pc = "headless"
  /\ headless.st[inst[i].hl] \in {"resolved", "rejected"}
  /\ LET c0 == Ctx(inst[i])
         c1 == IF headless.st[c0.o.hl] = "rejected"
               THEN initializeCatch(c0, "PrimerError:headless")
               ELSE LET c2 == emit(c0, "methods-available", "", "")
                    IN IF c2.o.availableMethods = <<>>
                       THEN initializeReady(c2)
                       ELSE [c2 EXCEPT !.o.pc = "render",
                                       !.o.rendering = Range(c2.o.availableMethods)]
     IN Commit(i, c1)
  /\ UNCHANGED <<defaultConfig, sdk, req, sessionCache, headless, ops>> /\ ret' = NoOp

(* initMethod(method) finishes: the UI is rendered, or rendering failed.   *)
(* Promise.all rejects with the first failure and resolves after the last  *)
(* success; the other renders go on either way.                            *)
MethodRender(i, m, ok) ==
  /\ ~MicrotaskPending
  /\ m \in inst[i].rendering
  /\ LET c0 == [Ctx(inst[i]) EXCEPT !.o.rendering = @ \ {m}]
         c1 == IF ok
               THEN emit([c0 EXCEPT !.o.destroyCallbacks = Append(@, m)],
                         "method-render", m, "")
               ELSE emit(c0, "method-render-error", m, "")
         c2 == IF c1.o.pc # "render" THEN c1
               ELSE IF ~ok THEN initializeCatch(c1, "PrimerError:render")
               ELSE IF c1.o.rendering = {} THEN initializeReady(c1)
               ELSE c1
     IN Commit(i, c2)
  /\ UNCHANGED <<defaultConfig, sdk, req, sessionCache, headless, ops>> /\ ret' = NoOp

RECURSIVE register(_, _, _)
register(c, eventName, handlers) ==
  IF handlers = <<>> THEN c
  ELSE register(on(c, eventName, Head(handlers)), eventName, Tail(handlers))

(* createCheckout returns the instance to the application, which registers *)
(* its listeners with on() in the continuation of its await.               *)
Handover(i, listeners) ==
  /\ inst[i].pc = "resolved"
  /\ Commit(i, register([Ctx(inst[i]) EXCEPT !.o.pc = "live", !.o.initLog = <<>>],
                        AppEvent, listeners))
  /\ UNCHANGED <<defaultConfig, sdk, req, sessionCache, headless, ops>> /\ ret' = NoOp

(***************************************************************************)
(* APIClient.processPaymentResponse                                        *)
(***************************************************************************)
PaymentOrders == {NoVal, "ord_2"}   \* order_id echoed by a payment response
CheckoutStatuses == {NoVal, "succeeded", "failed", "cancelled", "processing", "refunded"}

PaymentResponses ==
  [status : {"success"}, action_required_token : {NoVal, "tok_3ds"},
   checkout_status : CheckoutStatuses, order_id : PaymentOrders]
  \cup {[status |-> "error", action_required_token |-> NoVal,
         checkout_status |-> NoVal, order_id |-> NoVal]}

NoPayment ==
  [status |-> "none", action_required_token |-> NoVal, checkout_status |-> NoVal,
   order_id |-> NoVal]

Result(type, orderId, clientToken, status) ==
  [exc |-> "none", type |-> type, orderId |-> orderId,
   clientToken |-> clientToken, status |-> status]

Thrown(exc) ==
  [exc |-> exc, type |-> "none", orderId |-> NoVal, clientToken |-> NoVal,
   status |-> NoVal]

(* An interpretation that looks at a terminal checkout_status before the   *)
(* action-required token.                                                  *)
processPaymentResponse_statusFirst(response) ==
  IF response.status = "error" THEN Thrown("APIError:double_purchase")
  ELSE IF response.checkout_status = "succeeded"
  THEN Result("success", response.order_id, NoVal, "succeeded")
  ELSE IF response.checkout_status = "failed" THEN Thrown("APIError:failed")
  ELSE IF response.checkout_status = "cancelled" THEN Thrown("APIError:cancelled")
  ELSE IF response.action_required_token \notin {NoVal, ""}
  THEN Result("action_required", response.order_id,
              response.action_required_token, NoVal)
  ELSE IF response.checkout_status \in {NoVal, ""}
  THEN Thrown("APIError:invalid_format")
  ELSE IF response.checkout_status = "processing"
  THEN Result("processing", response.order_id, NoVal, "processing")
  ELSE Thrown("APIError:unhandled_status")

(* `if (data.action_required_token)` and `if (data.checkout_status)` test  *)
(* truthiness: a missing and an empty string both fail them.               *)
processPaymentResponse(response) ==
  IF response.status = "error" THEN Thrown("APIError:double_purchase")
  ELSE IF response.action_required_token \notin {NoVal, ""}
  THEN Result("action_required", response.order_id,
              response.action_required_token, NoVal)
  ELSE IF response.checkout_status \in {NoVal, ""}
  THEN Thrown("APIError:invalid_format")
  ELSE IF response.checkout_status = "succeeded"
  THEN Result("success", response.order_id, NoVal, "succeeded")
  ELSE IF response.checkout_status = "failed" THEN Thrown("APIError:failed")
  ELSE IF response.checkout_status = "cancelled" THEN Thrown("APIError:cancelled")
  ELSE IF response.checkout_status = "processing"
  THEN Result("processing", response.order_id, NoVal, "processing")
  ELSE Thrown("APIError:unhandled_status")

(***************************************************************************)
(* CheckoutInstance: the tokenize and resume callbacks                     *)
(***************************************************************************)
(* A signal to the provider's handler object of callback p.                *)
Primer(c, signal, arg, p) ==
  Do(c, Eff("primer", signal, "", arg, "", c.o, p))

(* onLoaderChangeWithRace that reports the flag it was called with.        *)
onLoaderChangeWithRace_ownFlag(c, state) ==
  LET counter == IF state THEN c.o.counter + 1 ELSE c.o.counter - 1
  IN emit([c EXCEPT !.o.counter = counter], "loader-change",
          IF state THEN "true" ELSE "false", "")

onLoaderChangeWithRace(c, state) ==
  LET counter == IF state THEN c.o.counter + 1 ELSE c.o.counter - 1
  IN emit([c EXCEPT !.o.counter = counter], "loader-change",
          IF counter # 0 THEN "true" ELSE "false", "")

(* The try block up to the await of the backend call.                      *)
handleStart(c, kind) ==
  LET c1 == onLoaderChangeWithRace(c, TRUE)
      c2 == _setState(c1, "processing")
  IN Do(c2, Eff("request", IF kind = "tokenize" THEN "create_payment"
                           ELSE "resume_payment",
                "", c2.o.orderId, "", c2.o, 0))

(* _processPaymentResult that reports the instance's stored orderId in the *)
(* `success` event instead of the one of the result.                       *)
_processPaymentResult_storedOrderId(c, result, p) ==
  LET c1 == IF result.orderId # NoVal
            THEN [c EXCEPT !.o.orderId = result.orderId] ELSE c
  IN CASE result.type = "success" ->
            LET c2 == _setState(c1, "completed")
                c3 == emit(c2, "success", c2.o.orderId, result.status)
            IN Primer(c3, "handleSuccess", "", p)
       [] result.type = "action_required" ->
            LET c2 == _setState(c1, "action_required")
                c3 == [c2 EXCEPT !.o.clientToken = result.clientToken]
            IN Primer(c3, "continueWithNewClientToken", result.clientToken, p)
       [] result.type = "processing" ->
            Do(_setState(c1, "processing"),
               Eff("timer", "setTimeout", "", "", "", c1.o, p))
       [] OTHER -> Throw(c1, "CheckoutError:unknown_result")

_processPaymentResult(c, result, p) ==
  LET c1 == IF result.orderId # NoVal
            THEN [c EXCEPT !.o.orderId = result.orderId] ELSE c
  IN CASE result.type = "success" ->
            LET c2 == _setState(c1, "completed")
                c3 == emit(c2, "success", result.orderId, result.status)
            IN Primer(c3, "handleSuccess", "", p)
       [] result.type = "action_required" ->
            LET c2 == _setState(c1, "action_required")
                c3 == [c2 EXCEPT !.o.clientToken = result.clientToken]
            IN Primer(c3, "continueWithNewClientToken", result.clientToken, p)
       [] result.type = "processing" ->
            Do(_setState(c1, "processing"),
               Eff("timer", "setTimeout", "", "", "", c1.o, p))
       [] OTHER -> Throw(c1, "CheckoutError:unknown_result")

(* A handler without its catch block: the error stays in flight.           *)
handleCatch_rethrows(c, p) == c

(* A catch block that reports the failure to the application only.        *)
handleCatch_noSignal(c, p) ==
  LET error == c.exc
      c1 == _setState(Caught(c), "error")
  IN emit(c1, "purchase-failure", error, NoVal)

(* The errorCode of the APIError that processPaymentResponse builds from   *)
(* an error envelope (firstError.code); the other errors have none.        *)
errorCode(exc) == IF exc = "APIError:double_purchase" THEN "double_purchase" ELSE NoVal

(* The catch block of handleTokenizeSuccess / handleResumeSuccess.  The    *)
(* event's payload is `new Error(error.message)`: its message (a), and the *)
(* errorCode it carries (b), which a fresh Error does not have.            *)
handleCatch(c, p) ==
  LET error == c.exc
      c1 == _setState(Caught(c), "error")
      c2 == emit(c1, "purchase-failure", error, NoVal)
  IN Primer(c2, "handleFailure", error, p)

(* The finally block; the callback's promise settles after it.             *)
handleFinally(c, kind, p) ==
  LET c1 == IF kind = "resume" THEN emit(c, "purchase-completed", "", "") ELSE c
      c2 == onLoaderChangeWithRace(c1, FALSE)
      c3 == _setState(c2, "ready")
  IN Do(c3, Eff("settle", IF c3.exc = "none" THEN "resolved" ELSE "rejected",
                kind, c3.exc, "", c3.o, p))

(* A wrapper that calls handleFailure however the handler settled.         *)
wrapHandler_alwaysFails(c, p) ==
  Primer(Caught(c), "handleFailure", "Payment processing failed", p)

(* PrimerWrapper.wrapTokenizeHandler / wrapResumeHandler around a handler  *)
(* that has settled: a rejection becomes handleFailure.                    *)
wrapHandler(c, p) ==
  IF c.exc = "none" THEN c
  ELSE Primer(Caught(c), "handleFailure", "Payment processing failed", p)

(* How the callback's own promise settled in a step with effects f.        *)
Settled(f, old) ==
  LET s == SelectSeq(f, LAMBDA e : e.k = "settle")
  IN IF s = <<>> THEN old ELSE s[1].ev

(* The activation record of callback p after a step with effects f: what   *)
(* it has emitted and which signals it has given to its provider handler.  *)
Tally(op, f, p) ==
  LET emits(eventName) ==
        Len(SelectSeq(f, LAMBDA e : e.k = "emit" /\ e.ev = eventName))
      signals(signal) ==
        Len(SelectSeq(f, LAMBDA e : e.k = "primer" /\ e.ev = signal /\ e.n = p))
  IN [op EXCEPT
        !.settled = Settled(f, @),
        !.pf = @ + emits("purchase-failure"),
        !.succ = @ + emits("success"),
        !.err = @ + emits("error"),
        !.hs = @ + signals("handleSuccess"),
        !.hf = @ + signals("handleFailure"),
        !.cont = @ + signals("continueWithNewClientToken")]

(* What is left of a callback that has returned: the timer it set and the  *)
(* challenge it handed to the provider.                                    *)
Returned(op) ==
  [NoOp EXCEPT !.pc = "done", !.i = op.i, !.timer = op.timer,
               !.challenge = (op.cont > 0)]

(* The instance whose handlers the provider calls: the one whose           *)
(* createHeadless call made the session.  Payment starts on the UI of a    *)
(* checkout that has been handed to the application.                       *)
CanPay(i) ==
  /\ headless.st[i] = "resolved"
  /\ inst[i].pc = "live"
  /\ inst[i].destroyCallbacks # <<>>

(* The first free activation record.                                       *)
FreeOp(p) ==
  /\ ops[p].pc = "none"
  /\ \A q \in OpId : q < p => ops[q].pc # "none"

Started(i, kind, f, p) ==
  Tally([NoOp EXCEPT !.pc = "backend", !.kind = kind, !.i = i], f, p)

(* The provider calls onTokenizeSuccess with a payment method token.       *)
TokenizeCallback(p, i) ==
  /\ ~MicrotaskPending
  /\ CanPay(i)
  /\ FreeOp(p)
  /\ LET c == handleStart(Ctx(inst[i]), "tokenize")
     IN /\ Commit(i, c)
        /\ ops' = [ops EXCEPT ![p] = Started(i, "tokenize", c.fx, p)]
  /\ ret' = NoOp
  /\ UNCHANGED <<defaultConfig, sdk, req, sessionCache, headless>>

(* The provider calls onResumeSuccess once the challenge of callback q,    *)
(* which it was told to continue with a new client token, is resolved.     *)
ResumeCallback(p, q) ==
  /\ ~MicrotaskPending
  /\ FreeOp(p)
  /\ ops[q].pc = "done" /\ ops[q].challenge
  /\ LET i == ops[q].i
         c == handleStart(Ctx(inst[i]), "resume")
     IN /\ Commit(i, c)
        /\ ops' = [ops EXCEPT ![p] = Started(i, "resume", c.fx, p),
                              ![q].challenge = FALSE]
  /\ ret' = NoOp
  /\ UNCHANGED <<defaultConfig, sdk, req, sessionCache, headless>>

(* What the backend call of callback p came back with: a rejection, an     *)
(* error envelope, an action-required token, or a checkout_status; and the *)
(* order_id it echoed.                                                     *)
ResponseClass(r) ==
  IF r.status = "error" THEN "error_envelope"
  ELSE IF r.action_required_token # NoVal THEN "token"
  ELSE r.checkout_status

(* The order_id of a response is read only when the response is            *)
(* interpreted as a result.                                                *)
Echoed(r) ==
  IF processPaymentResponse(r).exc = "none" THEN r.order_id ELSE NoVal

Backend(c, class, order_id, p) ==
  Do(c, Eff("backend", class, "", order_id, "", c.o, p))

(* The rest of the handler once the backend call has settled: with error   *)
(* exc, or with "none" and a response.                                     *)
handleSettled(c, exc, response, kind, p) ==
  IF exc # "none"
  THEN wrapHandler(handleFinally(handleCatch(Throw(c, exc), p), kind, p), p)
  ELSE LET result == processPaymentResponse(response)
       IN IF result.exc # "none"
          THEN wrapHandler(handleFinally(handleCatch(Throw(c, result.exc), p),
                                         kind, p), p)
          ELSE LET c1 == _processPaymentResult(c, result, p)
               IN IF c1.exc # "none"
                  THEN wrapHandler(handleFinally(handleCatch(c1, p), kind, p), p)
                  ELSE c1

HasSettled(f) == \E k \in 1..Len(f) : f[k].k = "settle"
HasTimer(f) == \E k \in 1..Len(f) : f[k].k = "timer"

(* Callback p ran a step with effects c.fx.  When its promise settled in   *)
(* that step the callback has returned.                                    *)
Ran(p, c, class) ==
  LET op == Tally([ops[p] EXCEPT !.result = IF class = "" THEN @ ELSE class,
                                 !.timer = @ \/ HasTimer(c.fx)], c.fx, p)
  IN IF HasSettled(c.fx)
     THEN ops' = [ops EXCEPT ![p] = Returned(op)]
          /\ ret' = [op EXCEPT !.pc = "done"]
     ELSE ops' = [ops EXCEPT ![p] = [op EXCEPT !.pc = "result"]]
          /\ ret' = NoOp

(* createPayment / resumePayment returns an envelope.                      *)
PaymentResponse(p, response) ==
  /\ ~MicrotaskPending
  /\ ops[p].pc = "backend"
  /\ LET i == ops[p].i
         c0 == Backend(Ctx(inst[i]), ResponseClass(response), Echoed(response), p)
         c == handleSettled(c0, "none", response, ops[p].kind, p)
     IN Commit(i, c) /\ Ran(p, c, ResponseClass(response))
  /\ UNCHANGED <<defaultConfig, sdk, req, sessionCache, headless>>

(* createPayment / resumePayment rejects after its retries.                *)
PaymentRequestFails(p) ==
  /\ ~MicrotaskPending
  /\ ops[p].pc = "backend"
  /\ LET i == ops[p].i
         c0 == Backend(Ctx(inst[i]), "request_failed", NoVal, p)
         c == handleSettled(c0, "NetworkError", NoPayment, ops[p].kind, p)
     IN Commit(i, c) /\ Ran(p, c, "request_failed")
  /\ UNCHANGED <<defaultConfig, sdk, req, sessionCache, headless>>

(* The continuation after `await this._processPaymentResult(...)`.         *)
CallbackFinally(p) ==
  /\ ops[p].pc = "result"
  /\ LET i == ops[p].i
         c == wrapHandler(handleFinally(Ctx(inst[i]), ops[p].kind, p), p)
     IN Commit(i, c) /\ Ran(p, c, "")
  /\ UNCHANGED <<defaultConfig, sdk, req, sessionCache, headless>>

(* The 30 s timer set for a `processing` result fires.                     *)
ProcessingTimer(p) ==
  /\ ~MicrotaskPending
  /\ ops[p].timer
  /\ ops[p].pc = "done"
  /\ fx' = Primer(Ctx(inst[ops[p].i]), "handleFailure", "still processing", p).fx
  /\ ops' = [ops EXCEPT ![p].timer = FALSE]
  /\ ret' = NoOp
  /\ UNCHANGED <<defaultConfig, sdk, req, inst, sessionCache, headless>>

(***************************************************************************)
(* The card form's submit button                                           *)
(***************************************************************************)
handleInputChange(c, inputName, error) ==
  emit(c, "input-error", inputName, error)

handleSubmit(c, isSubmitting) ==
  _setState(onLoaderChangeWithRace(c, isSubmitting),
            IF isSubmitting THEN "processing" ELSE "ready")

(* onSubmitHandler once pmManager.validate() has answered: the cardholder  *)
(* error is dispatched, and a valid form is submitted.  `submitting` is    *)
(* the number of activations suspended at `await pmManager.submit()`.      *)
SubmitClick(i, valid, cardHolderError) ==
  /\ ~MicrotaskPending
  /\ CanPay(i)
  /\ inst[i].submitCalls < MaxSubmitCalls
  /\ LET c0 == Ctx([inst[i] EXCEPT !.submitCalls = @ + 1])
         c1 == handleInputChange(c0, "cardholderName", cardHolderError)
         c2 == handleSubmit(c1, TRUE)
     IN Commit(i, IF valid
                  THEN Do([c2 EXCEPT !.o.submitting = @ + 1],
                          Eff("submit", "pmManager.submit", "", "", "", c2.o, 0))
                  ELSE c1)
  /\ ret' = NoOp
  /\ UNCHANGED <<defaultConfig, sdk, req, sessionCache, headless, ops>>

(* pmManager.submit() settles: the finally block runs, and a rejection     *)
(* leaves the handler as a PrimerError.                                    *)
SubmitSettles(i, ok) ==
  /\ ~MicrotaskPending
  /\ inst[i].submitting > 0
  /\ LET c0 == Ctx([inst[i] EXCEPT !.submitting = @ - 1])
         c1 == handleSubmit(c0, FALSE)
     IN Commit(i, Do(c1, Eff("submitted", IF ok THEN "resolved" ELSE "rejected",
                             "", IF ok THEN "" ELSE "PrimerError", "", c1.o, 0)))
  /\ ret' = NoOp
  /\ UNCHANGED <<defaultConfig, sdk, req, sessionCache, headless, ops>>

(***************************************************************************)
(* Selecting and deselecting a payment method                              *)
(***************************************************************************)
(* The tokenize and resume callbacks the provider has made on instance i.  *)
BackendCalls(i) == Cardinality({p \in OpId : ops[p].pc # "none" /\ ops[p].i = i})

(* getCheckoutOptions: onPaymentMethodAction.  wasPaymentProcessedStarted  *)
(* is the closure's flag; no other code assigns it.                        *)
onPaymentMethodAction(c, action) ==
  CASE action = "PAYMENT_METHOD_SELECTED" -> emit(c, "error", NoVal, "")
    [] action = "PAYMENT_METHOD_UNSELECTED" ->
         LET c1 == IF ~c.o.wasPaymentProcessedStarted
                   THEN emit(c, "purchase-cancelled", "", "") ELSE c
         IN [c1 EXCEPT !.o.wasPaymentProcessedStarted = FALSE]
    [] OTHER -> c

(* getCheckoutOptions: onTokenizeShouldStart, which the provider calls     *)
(* before it tokenizes the method the user is paying with.                 *)
TokenizeShouldStart(i) ==
  /\ ~MicrotaskPending
  /\ CanPay(i)
  /\ LET c0 == Do(Ctx(inst[i]), Eff("action", "TOKENIZE_SHOULD_START", "",
                                   PaymentCard, "", inst[i], 0))
         c1 == emit(c0, "error", NoVal, "")
     IN Commit(i, emit(c1, "start-purchase", PaymentCard, ""))
  /\ ret' = NoOp
  /\ UNCHANGED <<defaultConfig, sdk, req, sessionCache, headless, ops>>

(* The provider reports a selection or a deselection.  `selected` and      *)
(* `callsAtSelect` are the provider's side: whether a method is selected   *)
(* and how many callbacks it had made when the method was selected.        *)
PaymentMethodAction(i, action) ==
  /\ ~MicrotaskPending
  /\ CanPay(i)
  /\ inst[i].selected = (action = "PAYMENT_METHOD_UNSELECTED")
  /\ LET c0 == Do(Ctx(inst[i]), Eff("action", action, "", "", "", inst[i], 0))
         c1 == onPaymentMethodAction(c0, action)
     IN Commit(i, [c1 EXCEPT !.o.selected = ~@,
                             !.o.callsAtSelect = BackendCalls(i)])
  /\ ret' = NoOp
  /\ UNCHANGED <<defaultConfig, sdk, req, sessionCache, headless, ops>>

(***************************************************************************)
(* APIClient.request: retry over withTimeout(_makeRequest)                 *)
(***************************************************************************)
RETRY_ATTEMPTS == 3
baseDelay == 1000

(* A retry that waits the base delay before every further attempt.         *)
delay_fixed(attempt) == baseDelay

(* retry: the wait after a failed attempt that is not the last.            *)
delay(attempt) == baseDelay * 2 ^ (attempt - 1)

(* request(endpoint): retry makes its first attempt.  `log` is what the    *)
(* attempts settled with, `waits` the delays slept between them.           *)
Request(endpoint) ==
  /\ req.pc \in {"idle", "resolved", "rejected"}
  /\ req' = [pc |-> "attempt", endpoint |-> endpoint, attempt |-> 1,
             lastError |-> NoVal, log |-> <<>>, waits |-> <<>>, reached |-> <<>>,
             outcome |-> NoVal]
  /\ UNCHANGED <<defaultConfig, sdk, inst, sessionCache, headless, ops, fx, ret>>

(* The race of withTimeout settles: _makeRequest returned the data ("ok"), *)
(* or it threw a NetworkError (fetch failed) or an APIError (bad JSON, or  *)
(* a status that is not ok), or the timeout rejected first ("Error").      *)
(* retry returns the data, or sleeps, or after its last attempt rethrows   *)
(* to request's catch, which passes an APIError on and wraps the rest.     *)
(* `reached` records whether the backend received the attempt's request:   *)
(* it did when it answered; when fetch failed, or when the timeout won the *)
(* race (fetch is not aborted and goes on), it may or may not have.        *)
AttemptSettles(result) ==
  /\ req.pc = "attempt"
  /\ \E reached \in IF result \in {"ok", "APIError"} THEN {TRUE} ELSE BOOLEAN :
     LET r == [req EXCEPT !.log = Append(@, result),
                          !.reached = Append(@, reached)]
     IN req' =
          IF result = "ok" THEN [r EXCEPT !.pc = "resolved", !.outcome = "data"]
          ELSE IF req.attempt = RETRY_ATTEMPTS
          THEN [r EXCEPT !.pc = "rejected", !.lastError = result,
                         !.outcome = IF result = "APIError" THEN "APIError"
                                     ELSE "NetworkError"]
          ELSE [r EXCEPT !.pc = "sleep", !.lastError = result,
                         !.waits = Append(@, delay(req.attempt))]
  /\ UNCHANGED <<defaultConfig, sdk, inst, sessionCache, headless, ops, fx, ret>>

(* sleep(delay) resolves: the loop goes on with the next attempt.          *)
SleepEnds ==
  /\ req.pc = "sleep"
  /\ req' = [req EXCEPT !.pc = "attempt", !.attempt = @ + 1]
  /\ UNCHANGED <<defaultConfig, sdk, inst, sessionCache, headless, ops, fx, ret>>

(***************************************************************************)
(* Interpreting the envelope a payment call resolved with                  *)
(***************************************************************************)
(* The envelopes createPayment / resumePayment can resolve with: either    *)
(* status, with or without a token, a checkout_status and an order_id.     *)
ResponseEnvelopes ==
  [status : {"success", "error"}, action_required_token : {NoVal, "", "tok_3ds"},
   checkout_status : CheckoutStatuses \cup {""}, order_id : PaymentOrders]

(* A create_payment call has resolved with an envelope.                    *)
InitResponse ==
  /\ inst = [i \in Inst |-> Absent]
  /\ sessionCache = [k \in Keys |-> NoSession]
  /\ headless = [cur |-> 0, st |-> [i \in Inst |-> "none"],
                 token |-> [i \in Inst |-> NoVal]]
  /\ ops = [p \in OpId |-> NoOp]
  /\ fx = <<>>
  /\ ret = NoOp
  /\ defaultConfig = [orgId |-> NoVal, baseUrl |-> NoVal, region |-> NoVal]
  /\ sdk = NotLoaded
  /\ \E response \in ResponseEnvelopes :
       req = [pc |-> "resolved", endpoint |-> "create_payment", attempt |-> 1,
              lastError |-> NoVal, log |-> <<"ok">>, waits |-> <<>>, reached |-> <<TRUE>>,
              outcome |-> response]

(* this.apiClient.processPaymentResponse(paymentResponse): what it returns *)
(* (type, orderId, and the clientToken or the status) or throws.           *)
Interpret ==
  /\ req.pc = "resolved"
  /\ LET result == processPaymentResponse(req.outcome)
     IN fx' = <<Eff("result", result.type, result.exc, result.orderId,
                    IF result.type = "action_required" THEN result.clientToken
                    ELSE result.status, Absent, 0)>>
  /\ req' = [req EXCEPT !.pc = "interpreted"]
  /\ UNCHANGED <<defaultConfig, sdk, inst, sessionCache, headless, ops, ret>>

(***************************************************************************)
(* loadPrimerSDK / PrimerWrapper.ensurePrimerLoaded                        *)
(***************************************************************************)
(* The async body of loadPrimerSDK ends: isLoaded = true, or the catch     *)
(* block forgets the promise and rethrows; every caller awaiting the       *)
(* promise settles with it.                                                *)
loadSettled(s, ok) ==
  [s EXCEPT !.isLoaded = ok, !.loadingPromise = IF ok THEN @ ELSE "null",
            !.cssP = "none", !.scriptP = "none", !.wait = "none",
            !.callers = [c \in Callers |->
                           IF s.callers[c] # "waiting" THEN s.callers[c]
                           ELSE IF ok THEN "resolved" ELSE "rejected"]]

(* waitForPrimer: check()                                                  *)
check(s) ==
  IF s.primer THEN loadSettled(s, TRUE)
  ELSE IF s.elapsed > TimeoutPolls THEN loadSettled(s, FALSE)
  ELSE [s EXCEPT !.wait = "polling"]

(* Promise.all of the two injections, once neither is pending.             *)
assetsSettled(s) ==
  IF "rejected" \in {s.cssP, s.scriptP} THEN loadSettled(s, FALSE)
  ELSE IF s.cssP = "resolved" /\ s.scriptP = "resolved"
  THEN check([s EXCEPT !.elapsed = 0])
  ELSE s

(* Caller c calls ensurePrimerLoaded().                                    *)
EnsurePrimerLoaded(c) ==
  /\ sdk.callers[c] # "waiting"
  /\ sdk.calls < MaxLoadCalls
  /\ LET s == [sdk EXCEPT !.calls = @ + 1]
         returns == [s EXCEPT !.callers[c] = "resolved"]
         awaits == [s EXCEPT !.callers[c] = "waiting"]
     IN sdk' =
          IF s.primer \/ s.isLoaded THEN returns
          ELSE IF s.loadingPromise # "null" THEN awaits
          ELSE assetsSettled(
                 [awaits EXCEPT
                    !.loadingPromise = "pending", !.loads = @ + 1, !.age = 0,
                    !.css = IF @ = "none" THEN "loading" ELSE @,
                    !.cssP = IF s.css = "none" THEN "pending" ELSE "resolved",
                    !.cssInjected = IF s.css = "none" THEN @ + 1 ELSE @,
                    !.script = IF @ = "none" THEN "loading" ELSE @,
                    !.scriptP = IF s.script = "none" THEN "pending" ELSE "resolved",
                    !.scriptInjected = IF s.script = "none" THEN @ + 1 ELSE @])
  /\ UNCHANGED <<defaultConfig, req, inst, sessionCache, headless, ops, fx, ret>>

(* The browser fires onload or onerror on a tag; a script that loads       *)
(* defines window.Primer, unless it is not the provider's script.          *)
AssetEvent(tag, ok, defines) ==
  /\ sdk[tag] = "loading"
  /\ LET promise == IF tag = "css" THEN "cssP" ELSE "scriptP"
         s == [sdk EXCEPT ![tag] = IF ok THEN "loaded" ELSE "error",
                          !.primer = @ \/ (tag = "script" /\ ok /\ defines),
                          ![promise] = IF @ # "pending" THEN @
                                       ELSE IF ok THEN "resolved" ELSE "rejected"]
     IN sdk' = IF sdk[promise] = "pending" THEN assetsSettled(s) ELSE s
  /\ UNCHANGED <<defaultConfig, req, inst, sessionCache, headless, ops, fx, ret>>

(* One poll interval (50 ms) passes: the timer of waitForPrimer, if set,   *)
(* runs check() again.                                                     *)
Tick ==
  /\ LET s == [sdk EXCEPT
                 !.age = IF sdk.loadingPromise = "pending" /\ ~sdk.isLoaded
                            /\ @ < TimeoutPolls + 2
                         THEN @ + 1 ELSE @]
     IN sdk' = IF sdk.wait = "polling"
               THEN check([s EXCEPT !.elapsed = @ + 1])
               ELSE s
  /\ UNCHANGED <<defaultConfig, req, inst, sessionCache, headless, ops, fx, ret>>

(***************************************************************************)
(* destroy                                                                 *)
(***************************************************************************)
RECURSIVE runCleanups(_, _, _)
(* destroyCallbacks.map(destroy => destroy()): the callbacks run in order; *)
(* one in `failing` raises, which ends the map.                            *)
runCleanups(c, callbacks, failing) ==
  IF callbacks = <<>> THEN c
  ELSE LET c1 == Do(c, Eff("cleanup", Head(callbacks), "", "", "", c.o, 0))
       IN IF Head(callbacks) \in failing
          THEN Throw(c1, "Error:cleanup")
          ELSE runCleanups(c1, Tail(callbacks), failing)

(* PrimerWrapper.destroy without its try/catch: a cleanup that raises      *)
(* rejects the teardown.                                                   *)
primerWrapperDestroy_noCatch(c, failing) ==
  LET c1 == runCleanups(c, c.o.destroyCallbacks, failing)
  IN IF c1.exc # "none" THEN c1
     ELSE [c1 EXCEPT !.o.destroyCallbacks = <<>>, !.o.isInitialized = FALSE]

(* PrimerWrapper.destroy                                                   *)
primerWrapperDestroy(c, failing) ==
  LET c1 == runCleanups(c, c.o.destroyCallbacks, failing)
      c2 == IF c1.exc # "none"
            THEN Do(Caught(c1), Eff("warn", "Error destroying Primer checkout",
                                    "", c1.exc, "", c1.o, 0))
            ELSE c1
  IN [c2 EXCEPT !.o.destroyCallbacks = <<>>, !.o.isInitialized = FALSE]

(* A destroy() call suspended at `await this.primerWrapper.destroy()`: how *)
(* the teardown settled, and whether it logged a failure of its own.       *)
Teardown(t) ==
  [exc |-> t.exc, warned |-> \E k \in 1..Len(t.fx) : t.fx[k].k = "warn"]

(* destroy that removes the listeners before it emits `destroy`.           *)
destroyAfterTeardown_removesFirst(c, teardown) ==
  LET c0 == Do(c, Eff("awaited", "primerWrapper.destroy", "", teardown.exc,
                      IF teardown.warned THEN "warned" ELSE "", c.o, 0))
      d1 == _setState(c0, "destroyed")
      d2 == [d1 EXCEPT !.o.orderId = NoVal, !.o.clientToken = NoVal,
                       !.o.isDestroyed = TRUE]
      d3 == emit(removeAllListeners(d2), "destroy", "", "")
  IN Do(d3, Eff("settle", "resolved", "destroy", "", "", d3.o, 0))

(* CheckoutInstance.destroy after `await this.primerWrapper.destroy()`,    *)
(* which settled as `teardown`.                                            *)
destroyAfterTeardown(c, teardown) ==
  LET c0 == Do(c, Eff("awaited", "primerWrapper.destroy", "", teardown.exc,
                      IF teardown.warned THEN "warned" ELSE "", c.o, 0))
      c1 == IF teardown.exc # "none"
            THEN Do(c0, Eff("warn", "Error during checkout cleanup", "",
                            teardown.exc, "", c0.o, 0))
            ELSE LET d1 == _setState(c0, "destroyed")
                     d2 == [d1 EXCEPT !.o.orderId = NoVal, !.o.clientToken = NoVal,
                                      !.o.isDestroyed = TRUE]
                     d3 == emit(d2, "destroy", "", "")
                 IN removeAllListeners(d3)
  IN Do(c1, Eff("settle", "resolved", "destroy", "", "", c1.o, 0))

(* destroy without the isDestroyed guard.                                  *)
destroy_unguarded(c, failing) ==
  LET t == primerWrapperDestroy(c, failing)
  IN [Caught(t) EXCEPT !.o.destroying = Append(@, Teardown(t))]

(* CheckoutInstance.destroy up to its await: the guard, then the provider  *)
(* teardown, in which the cleanup callbacks in `failing` raise.            *)
destroy(c, failing) ==
  IF c.o.isDestroyed
  THEN Do(c, Eff("settle", "resolved", "destroy", "", "", c.o, 0))
  ELSE LET t == primerWrapperDestroy(c, failing)
       IN [Caught(t) EXCEPT !.o.destroying = Append(@, Teardown(t))]

(* The application calls destroy().                                        *)
DestroyCall(i, failing) ==
  /\ inst[i].pc = "live"
  /\ inst[i].destroyCalls < MaxDestroyCalls
  /\ failing \subseteq Range(inst[i].destroyCallbacks)
  /\ Commit(i, destroy([Ctx(inst[i]) EXCEPT !.o.destroyCalls = @ + 1], failing))
  /\ UNCHANGED <<defaultConfig, sdk, req, sessionCache, headless, ops>> /\ ret' = NoOp

(* The continuation of the oldest suspended destroy() call.                *)
DestroyFinish(i) ==
  /\ inst[i].destroying # <<>>
  /\ LET c0 == [Ctx(inst[i]) EXCEPT !.o.destroying = Tail(@)]
     IN Commit(i, destroyAfterTeardown(c0, Head(inst[i].destroying)))
  /\ UNCHANGED <<defaultConfig, sdk, req, sessionCache, headless, ops>> /\ ret' = NoOp

(***************************************************************************)
(* updatePrice                                                             *)
(***************************************************************************)
(* What the application passes to updatePrice: a price, or a blank string. *)
NewPrices == {"price_2", "price_3", " "}

sanitizeString(input) == IF input \in {NoVal, "", " "} THEN "" ELSE input

(* requireString(value, fieldName)                                         *)
requireString(c, value) ==
  IF sanitizeString(value) = "" THEN Throw(c, "ValidationError:priceId") ELSE c

(* An async call that raises before its first await: the promise rejects.  *)
Rejects(c, what) ==
  Do(Caught(c), Eff("settle", "rejected", what, c.exc, "", c.o, 0))

(* updatePrice up to `await this.apiClient.updateClientSession(...)`.      *)
updatePrice(c, newPriceId) ==
  IF c.o.isDestroyed THEN Rejects(Throw(c, "CheckoutError:destroyed"), "updatePrice")
  ELSE IF requireString(c, newPriceId).exc # "none"
  THEN Rejects(requireString(c, newPriceId), "updatePrice")
  ELSE IF c.o.state = "processing"
  THEN Rejects(Throw(c, "CheckoutError:processing"), "updatePrice")
  ELSE LET c1 == _setState(c, "updating")
           c2 == Do(c1, Eff("cache", "clear", "", "", "", c1.o, 0))
           c3 == Do(c2, Eff("request", "update_client_session", "", c2.o.orderId,
                            newPriceId, c2.o, 0))
       IN [c3 EXCEPT !.o.updates = Append(@, newPriceId)]

(* The rest of the try block once updateClientSession has resolved; what   *)
(* the response holds is not read.                                         *)
updatePriceDone(c, newPriceId) ==
  LET c1 == _setState([c EXCEPT !.o.priceId = newPriceId], "ready")
  IN Do(c1, Eff("settle", "resolved", "updatePrice", "", newPriceId, c1.o, 0))

(* A catch block of updatePrice that keeps the new price.                  *)
updatePriceCatch_assignsPrice(c, error, newPriceId) ==
  LET c1 == _setState([c EXCEPT !.o.priceId = newPriceId], "error")
      c2 == emit(c1, "error", error, "")
  IN Do(c2, Eff("settle", "rejected", "updatePrice", error, newPriceId, c2.o, 0))

(* The catch block of updatePrice.                                         *)
updatePriceCatch(c, error, newPriceId) ==
  LET c1 == _setState(c, "error")
      c2 == emit(c1, "error", error, "")
  IN Do(c2, Eff("settle", "rejected", "updatePrice", error, newPriceId, c2.o, 0))

(* CheckoutInstance.sessionCache.clear()                                   *)
Cleared(f) == \E k \in 1..Len(f) : f[k].k = "cache" /\ f[k].ev = "clear"

(* The application calls updatePrice(newPriceId).                          *)
UpdatePriceCall(i, newPriceId) ==
  /\ inst[i].pc = "live"
  /\ inst[i].priceCalls < MaxPriceCalls
  /\ LET c == updatePrice([Ctx(inst[i]) EXCEPT !.o.priceCalls = @ + 1], newPriceId)
     IN /\ Commit(i, c)
        /\ sessionCache' = IF Cleared(c.fx) THEN [k \in Keys |-> NoSession]
                           ELSE sessionCache
  /\ UNCHANGED <<defaultConfig, sdk, req, headless, ops>> /\ ret' = NoOp

(* The update request of the k-th updatePrice call in flight resolves.     *)
UpdateResponse(i, k) ==
  /\ ~MicrotaskPending
  /\ k \in 1..Len(inst[i].updates)
  /\ Commit(i, updatePriceDone([Ctx(inst[i]) EXCEPT !.o.updates = Without(@, k)],
                               inst[i].updates[k]))
  /\ UNCHANGED <<defaultConfig, sdk, req, sessionCache, headless, ops>> /\ ret' = NoOp

(* The update request of the k-th updatePrice call in flight is rejected:  *)
(* a network failure, a timeout or a response that is not OK.              *)
UpdateRequestFails(i, k) ==
  /\ ~MicrotaskPending
  /\ k \in 1..Len(inst[i].updates)
  /\ Commit(i, updatePriceCatch([Ctx(inst[i]) EXCEPT !.o.updates = Without(@, k)],
                                "NetworkError", inst[i].updates[k]))
  /\ UNCHANGED <<defaultConfig, sdk, req, sessionCache, headless, ops>> /\ ret' = NoOp

(***************************************************************************)
(* The application's use of the event channel                              *)
(***************************************************************************)
ListenEvents == {"success", "error"}
AppHandlers == {"hA", "hB"}                  \* functions it registers with on()
OffHandlers == {"hA", "hB", "hC", "onSuccess", NoVal}  \* what it passes to off()

(* checkout.on(eventName, handler)                                         *)
OnCall(i, eventName, handler) ==
  /\ inst[i].pc = "live"
  /\ inst[i].listenCalls < MaxListenCalls
  /\ Commit(i, on([Ctx(inst[i]) EXCEPT !.o.listenCalls = @ + 1], eventName, handler))
  /\ UNCHANGED <<defaultConfig, sdk, req, sessionCache, headless, ops>> /\ ret' = NoOp

(* checkout.off(eventName, handler) and checkout.off(eventName)            *)
OffCall(i, eventName, handler) ==
  /\ inst[i].pc = "live"
  /\ inst[i].listenCalls < MaxListenCalls
  /\ Commit(i, Do(off([Ctx(inst[i]) EXCEPT !.o.listenCalls = @ + 1], eventName,
                      handler),
                  Eff("off", eventName, handler, "", "", inst[i], 0)))
  /\ UNCHANGED <<defaultConfig, sdk, req, sessionCache, headless, ops>> /\ ret' = NoOp

(* checkout.once(eventName, handler): the wrapper of the handler is        *)
(* registered with on().  Every call makes a wrapper of its own.           *)
OnceCall(i, eventName, onceWrapper) ==
  /\ inst[i].pc = "live"
  /\ inst[i].listenCalls < MaxListenCalls
  /\ \A e \in EventNames : onceWrapper \notin Range(inst[i].events[e])
  /\ Commit(i, on([Ctx(inst[i]) EXCEPT !.o.listenCalls = @ + 1], eventName,
                  onceWrapper))
  /\ UNCHANGED <<defaultConfig, sdk, req, sessionCache, headless, ops>> /\ ret' = NoOp

(* checkout.emit(eventName, result)                                        *)
EmitCall(i, eventName) ==
  /\ inst[i].pc = "live"
  /\ Commit(i, emit(Ctx(inst[i]), eventName, "result", ""))
  /\ UNCHANGED <<defaultConfig, sdk, req, sessionCache, headless, ops>> /\ ret' = NoOp

(***************************************************************************)
(* configure and resolveConfig.  A configuration is a record of orgId,     *)
(* baseUrl and region in which a field that is not given is NoVal; a       *)
(* configuration that is null or left out has every field NoVal.           *)
(***************************************************************************)
(* a || b                                                                  *)
Or(a, b) == IF a \notin {NoVal, ""} THEN a ELSE b

(* resolveConfig in which the value set by configure() wins over the       *)
(* inline one.                                                             *)
resolveConfig_defaultFirst(options) ==
  [exc |-> IF Or(defaultConfig.orgId, options.orgId) \in {NoVal, ""}
           THEN "Error:orgId is required" ELSE "none",
   orgId |-> Or(defaultConfig.orgId, options.orgId),
   baseUrl |-> Or(defaultConfig.baseUrl,
                  Or(options.baseUrl, "https://billing.funnelfox.com")),
   region |-> Or(defaultConfig.region, Or(options.region, "default"))]

(* resolveConfig(options, functionName); options holds the inline orgId    *)
(* and the baseUrl and region of the inline apiConfig.                     *)
resolveConfig(options) ==
  [exc |-> IF Or(options.orgId, defaultConfig.orgId) \in {NoVal, ""}
           THEN "Error:orgId is required" ELSE "none",
   orgId |-> Or(options.orgId, defaultConfig.orgId),
   baseUrl |-> Or(options.baseUrl,
                  Or(defaultConfig.baseUrl, "https://billing.funnelfox.com")),
   region |-> Or(options.region, Or(defaultConfig.region, "default"))]

(* What a call of the functional API was given.                            *)
Called(name, options) ==
  Eff("api", name, options.orgId, options.baseUrl, options.region, Absent, 0)

(* configure(config)                                                       *)
Configure(config) ==
  /\ defaultConfig' = config
  /\ fx' = <<Called("configure", config)>>
  /\ UNCHANGED <<req, sdk, inst, sessionCache, headless, ops>> /\ ret' = NoOp

(* createCheckout(options) once the provider's script is loaded: the       *)
(* configuration is resolved, then the instance is made and initialized.   *)
CreateCheckoutCall(i, options) ==
  /\ inst[i].pc = "absent"
  /\ LET config == resolveConfig(options)
         c == initialize("k1", {}, TRUE, FALSE, "none")
     IN IF config.exc # "none"
        THEN /\ fx' = <<Called("createCheckout", options),
                        Eff("settle", "rejected", "createCheckout", config.exc,
                            "", Absent, 0)>>
             /\ UNCHANGED inst
        ELSE /\ fx' = <<Called("createCheckout", options)>> \o c.fx
             /\ inst' = [inst EXCEPT ![i] =
                           [c.o EXCEPT !.config = [orgId |-> config.orgId,
                                                   baseUrl |-> config.baseUrl,
                                                   region |-> config.region]]]
  /\ UNCHANGED <<defaultConfig, sdk, req, sessionCache, headless, ops>> /\ ret' = NoOp

(* createClientSession(params) up to the await of its request, which goes  *)
(* to baseUrl/orgId with the region in its payload.                        *)
CreateClientSessionCall(options) ==
  /\ LET config == resolveConfig(options)
     IN fx' = <<Called("createClientSession", options),
                IF config.exc # "none"
                THEN Eff("settle", "rejected", "createClientSession", config.exc,
                         "", Absent, 0)
                ELSE Eff("request", "create_client_session", config.orgId,
                         config.baseUrl, config.region, Absent, 0)>>
  /\ UNCHANGED <<defaultConfig, sdk, req, inst, sessionCache, headless, ops>> /\ ret' = NoOp

Init ==
  /\ inst = [i \in Inst |-> Absent]
  /\ sessionCache = [k \in Keys |-> NoSession]
  /\ headless = [cur |-> 0, st |-> [i \in Inst |-> "none"],
                 token |-> [i \in Inst |-> NoVal]]
  /\ ops = [p \in OpId |-> NoOp]
  /\ fx = <<>>
  /\ ret = NoOp
  /\ defaultConfig = [orgId |-> NoVal, baseUrl |-> NoVal, region |-> NoVal]
  /\ sdk = NotLoaded
  /\ req = [pc |-> "idle", endpoint |-> NoVal, attempt |-> 0, lastError |-> NoVal,
            log |-> <<>>, waits |-> <<>>, reached |-> <<>>, outcome |-> NoVal]

(* The options of the checkouts created on the page: each value of each    *)
(* option occurs.                                                          *)
PageConfigs ==
  {[callbacks |-> {}, containerFound |-> TRUE, defaultSkin |-> FALSE,
    onInitialized |-> "none"],
   [callbacks |-> Bridges, containerFound |-> TRUE, defaultSkin |-> TRUE,
    onInitialized |-> "returns"],
   [callbacks |-> Bridges, containerFound |-> FALSE, defaultSkin |-> FALSE,
    onInitialized |-> "none"],
   [callbacks |-> {}, containerFound |-> TRUE, defaultSkin |-> TRUE,
    onInitialized |-> "throws"]}

Initialization(i) ==
  \/ \E key \in (IF i = 1 THEN {"k1"} ELSE Keys), cfg \in PageConfigs :
       CreateCheckout(i, key, cfg.callbacks, cfg.containerFound, cfg.defaultSkin,
                      cfg.onInitialized)
  \/ \E r \in SessionResponses : SessionResponse(i, r)
  \/ SessionRequestFails(i)
  \/ InitializePrimerCheckout(i)
  \/ CreateHeadless(i)
  \/ \E items \in ProviderMethodSets : HeadlessStarts(i, items)
  \/ HeadlessFails(i)
  \/ RenderCheckout(i)
  \/ \E m \in Range(ALLOWED_PAYMENT_METHODS), ok \in BOOLEAN : MethodRender(i, m, ok)
  \/ Handover(i, <<>>)

(* A checkout that initialises without a failure: either with no callback  *)
(* option and custom selectors, or with every callback option and the      *)
(* default skin.                                                           *)
Configs == {[callbacks |-> {}, defaultSkin |-> FALSE, onInitialized |-> "none"],
            [callbacks |-> Bridges, defaultSkin |-> TRUE, onInitialized |-> "returns"]}

Creation(i) ==
  \/ \E cfg \in Configs :
       CreateCheckout(i, "k1", cfg.callbacks, TRUE, cfg.defaultSkin,
                      cfg.onInitialized)
  \/ SessionResponse(i, [status |-> "success", order_id |-> "ord_1",
                         client_token |-> "tok_s"])
  \/ InitializePrimerCheckout(i)
  \/ CreateHeadless(i)
  \/ HeadlessStarts(i, <<PaymentCard>>)
  \/ RenderCheckout(i)
  \/ MethodRender(i, PaymentCard, TRUE)
  \/ \E listeners \in AppListenerChoices : Handover(i, listeners)

Payment(i) ==
  \/ \E p \in OpId : TokenizeCallback(p, i)
  \/ \E p, q \in OpId : ops[q].i = i /\ ResumeCallback(p, q)
  \/ \E p \in OpId, r \in PaymentResponses : ops[p].i = i /\ PaymentResponse(p, r)
  \/ \E p \in OpId : ops[p].i = i /\ PaymentRequestFails(p)
  \/ \E p \in OpId : ops[p].i = i /\ CallbackFinally(p)
  \/ \E p \in OpId : ops[p].i = i /\ ProcessingTimer(p)

Application(i) ==
  \/ \E failing \in SUBSET Range(ALLOWED_PAYMENT_METHODS) : DestroyCall(i, failing)
  \/ DestroyFinish(i)

(* One checkout from creation to destruction.                              *)
Next == Creation(1) \/ Payment(1) \/ Application(1)

Spec == Init /\ [][Next]_vars

Price(i) ==
  \/ \E newPriceId \in NewPrices : UpdatePriceCall(i, newPriceId)
  \/ \E k \in 1..MaxPriceCalls : UpdateResponse(i, k)
  \/ \E k \in 1..MaxPriceCalls : UpdateRequestFails(i, k)

(* The results of the payment that runs while the price is changed: a     *)
(* challenge, a pending payment and a success.                             *)
PriceResponses ==
  {r \in PaymentResponses :
     /\ r.status = "success" /\ r.order_id = NoVal
     /\ \/ r.action_required_token = "tok_3ds" /\ r.checkout_status = NoVal
        \/ r.action_required_token = NoVal
           /\ r.checkout_status \in {"processing", "succeeded"}}

(* One payment on the checkout whose price is changed.                     *)
PricePayment(i) ==
  \/ TokenizeCallback(1, i)
  \/ \E r \in PriceResponses : ops[1].i = i /\ PaymentResponse(1, r)
  \/ ops[1].i = i /\ CallbackFinally(1)

(* A checkout with the fingerprint of the first one, created once the      *)
(* first one is in the application's hands.  The provider's session exists *)
(* by then, so no method of its own is reported to it.                     *)
Later(i) ==
  \/ inst[1].pc = "live" /\ CreateCheckout(i, "k1", {}, TRUE, FALSE, "none")
  \/ SessionResponse(i, [status |-> "success", order_id |-> "ord_2",
                         client_token |-> "tok_s"])
  \/ InitializePrimerCheckout(i)
  \/ RenderCheckout(i)
  \/ Handover(i, <<>>)

(* One checkout whose price the application changes while a payment runs,  *)
(* and a later checkout with the same fingerprint.                         *)
NextPrice == Creation(1) \/ PricePayment(1) \/ Price(1) \/ Later(2)

SpecPrice == Init /\ [][NextPrice]_vars

Listening(i) ==
  \/ \E eventName \in ListenEvents, handler \in AppHandlers :
       OnCall(i, eventName, handler)
  \/ \E eventName \in ListenEvents, handler \in OffHandlers :
       OffCall(i, eventName, handler)
  \/ \E eventName \in ListenEvents : EmitCall(i, eventName)

(* One checkout whose event channel the application uses directly.         *)
NextEvents == Creation(1) \/ Listening(1)

SpecEvents == Init /\ [][NextEvents]_vars

Registering(i) ==
  \/ \E onceWrapper \in OnceWrappers : OnceCall(i, "success", onceWrapper)
  \/ OnCall(i, "success", "hA")
  \/ EmitCall(i, "success")

(* One checkout on which the application registers handlers with once().   *)
NextOnce == Creation(1) \/ Registering(1)

SpecOnce == Init /\ [][NextOnce]_vars

(* One checkout whose card form is submitted while tokenize and resume     *)
(* callbacks are running.                                                  *)
LoaderResponses ==
  {r \in PaymentResponses :
     /\ r.order_id = NoVal
     /\ \/ r.status = "error" /\ r.action_required_token = NoVal
                              /\ r.checkout_status = NoVal
        \/ r.status = "success" /\ r.action_required_token = "tok_3ds"
                                /\ r.checkout_status = NoVal
        \/ r.status = "success" /\ r.action_required_token = NoVal
                                /\ r.checkout_status \in {"succeeded", "processing"}}

Submitting(i) ==
  \/ \E valid \in BOOLEAN, cardHolderError \in {NoVal, "required"} :
       SubmitClick(i, valid, cardHolderError)
  \/ \E ok \in BOOLEAN : SubmitSettles(i, ok)
  \/ \E p \in OpId : TokenizeCallback(p, i)
  \/ \E p, q \in OpId : ops[q].i = i /\ ResumeCallback(p, q)
  \/ \E p \in OpId, r \in LoaderResponses : ops[p].i = i /\ PaymentResponse(p, r)
  \/ \E p \in OpId : ops[p].i = i /\ PaymentRequestFails(p)
  \/ \E p \in OpId : ops[p].i = i /\ CallbackFinally(p)

NextLoader == Creation(1) \/ Submitting(1)

SpecLoader == Init /\ [][NextLoader]_vars

(* One checkout whose payment method is selected and deselected around a   *)
(* payment.                                                                *)
Selecting(i) ==
  \/ \E action \in {"PAYMENT_METHOD_SELECTED", "PAYMENT_METHOD_UNSELECTED"} :
       PaymentMethodAction(i, action)
  \/ TokenizeShouldStart(i)

NextSelect == Creation(1) \/ PricePayment(1) \/ Selecting(1)

SpecSelect == Init /\ [][NextSelect]_vars

(* One checkout with every payment method the provider offers, torn down   *)
(* by the application.                                                     *)
NextTeardown == Initialization(1) \/ Application(1)

SpecTeardown == Init /\ [][NextTeardown]_vars

(* One checkout and one payment whose result may be `processing`, with the *)
(* event loop's guarantees: a promise continuation that is ready runs      *)
(* (CallbackFinally and DestroyFinish, which are enabled whenever their    *)
(* continuation is pending, are not postponed forever), and a timer that   *)
(* is due fires once the pending continuations have run.                   *)
NextTimer ==
  Creation(1) \/ PricePayment(1) \/ ProcessingTimer(1) \/ Application(1)

SpecTimer ==
  /\ Init /\ [][NextTimer]_vars
  /\ []<>(ops[1].pc # "result")
  /\ []<>(inst[1].destroying = <<>>)
  /\ WF_vars(ProcessingTimer(1))

(* One checkout and its payments with the event loop's guarantees, as in   *)
(* SpecTimer, for every callback; and every backend call settles, since    *)
(* APIClient.request bounds each attempt with withTimeout and the number    *)
(* of attempts with retry.                                                 *)
SpecSignal ==
  /\ Init /\ [][Next]_vars
  /\ \A p \in OpId : []<>(ops[p].pc \notin {"backend", "result"})
  /\ []<>(inst[1].destroying = <<>>)
  /\ \A p \in OpId : WF_vars(ProcessingTimer(p))

(* Backend calls one after another.  Every attempt settles, because        *)
(* withTimeout rejects it when the timeout passes, and every sleep ends.   *)
NextRetry ==
  \/ \E endpoint \in {"create_client_session", "update_client_session",
                       "create_payment", "resume_payment"} : Request(endpoint)
  \/ \E result \in {"ok", "NetworkError", "APIError", "Error"} :
       AttemptSettles(result)
  \/ SleepEnds

SpecRetry ==
  /\ Init /\ [][NextRetry]_vars
  /\ WF_vars(\E result \in {"ok", "NetworkError", "APIError", "Error"} :
               AttemptSettles(result))
  /\ WF_vars(SleepEnds)

(* processPaymentResponse applied to every envelope.                       *)
SpecResponse == InitResponse /\ [][Interpret]_vars

(* One checkout up to the start of its headless session, for every list of *)
(* at most MaxItems payment methods the provider may report.               *)
NextMethods ==
  \/ CreateCheckout(1, "k1", {}, TRUE, FALSE, "none")
  \/ SessionResponse(1, [status |-> "success", order_id |-> "ord_1",
                         client_token |-> "tok_s"])
  \/ InitializePrimerCheckout(1)
  \/ CreateHeadless(1)
  \/ \E n \in 0..MaxItems :
       \E items \in [1..n -> Range(ALLOWED_PAYMENT_METHODS) \cup {"KLARNA"}] :
         HeadlessStarts(1, items)

SpecMethods == Init /\ [][NextMethods]_vars

(* Callers of ensurePrimerLoaded() on one page.  Time passes and timers    *)
(* fire; when the browser settles a tag's request is up to the network.    *)
NextSdk ==
  \/ \E c \in Callers : EnsurePrimerLoaded(c)
  \/ \E tag \in {"css", "script"}, ok, defines \in BOOLEAN :
       AssetEvent(tag, ok, defines)
  \/ Tick

SpecSdk == Init /\ [][NextSdk]_vars /\ WF_vars(Tick)

(* The functional API with every combination of inline and configured      *)
(* values.                                                                 *)
NextConfig ==
  \/ \E config \in [orgId : {NoVal, "org_cfg"}, baseUrl : {NoVal, "https://cfg"},
                     region : {NoVal, "region_cfg"}] : Configure(config)
  \/ \E options \in [orgId : {NoVal, "", "org_inline"},
                      baseUrl : {NoVal, "https://inline"},
                      region : {NoVal, "region_inline"}] :
       \/ CreateCheckoutCall(1, options)
       \/ CreateClientSessionCall(options)

SpecConfig == Init /\ [][NextConfig]_vars

(* Two checkouts created on one page.                                      *)
NextPage == \E i \in Inst : Initialization(i)

SpecPage == Init /\ [][NextPage]_vars

(***************************************************************************)
(* Properties                                                              *)
(***************************************************************************)
(* The positions of the effects of f that pass Test.                       *)
Idx(f, Test(_)) == {k \in 1..Len(f) : Test(f[k])}

IsEmit(e, eventName) == e.k = "emit" /\ e.ev = eventName
IsCall(e, eventName) == e.k = "call" /\ e.ev = eventName
IsSettle(e, what) == e.k = "settle" /\ e.h = what

RECURSIVE CallsAfter(_, _)
(* The number of handler invocations that directly follow position k.      *)
CallsAfter(f, k) ==
  IF k + 1 > Len(f) \/ f[k + 1].k \notin {"call", "caught"} THEN 0
  ELSE (IF f[k + 1].k = "call" THEN 1 ELSE 0) + CallsAfter(f, k + 1)

C2_SuccessEmittedOnceBeforeHandleSuccess ==
  /\ \A k \in 1..Len(fx) :
       (fx[k].k = "backend" /\ fx[k].ev = "succeeded") =>
         LET s == Idx(fx, LAMBDA e : IsEmit(e, "success"))
             h == Idx(fx, LAMBDA e : e.k = "primer" /\ e.ev = "handleSuccess"
                                      /\ e.n = fx[k].n)
         IN /\ Cardinality(s) = 1
            /\ Cardinality(h) = 1
            /\ \A x \in s, y \in h :
                 /\ k < x /\ x < y
                 /\ fx[x].a = fx[k].a
                 /\ fx[x].b = "succeeded"
  /\ (ret.pc = "done" /\ ret.result = "succeeded") => (ret.succ = 1 /\ ret.hs = 1)

C2_Witness ==
  \E k, j \in 1..Len(fx) :
    /\ fx[k].k = "backend" /\ fx[k].ev = "succeeded" /\ fx[k].a = "ord_2"
    /\ fx[j].k = "caught" /\ fx[j].ev = "success" /\ fx[j].a = "ord_2"

(* C3: when a tokenize or resume callback whose backend result was success *)
(* has finished on an instance destroy() was never called on, the state is *)
(* completed.                                                              *)
C3_CompletedWhenCallbackFinishes ==
  (ret.pc = "done" /\ ret.result = "succeeded" /\ inst[ret.i].destroyCalls = 0)
    => inst[ret.i].state = "completed"

(* C4: while the provider holds a challenge (it was told to continue with  *)
(* a new client token and has not yet invoked the resume callback), no     *)
(* other callback is running and destroy() was never called, the state is  *)
(* action_required and the stored client token is the new one.             *)
C4_ActionRequiredUntilResume ==
  \A p \in OpId :
    (/\ ops[p].pc = "done" /\ ops[p].challenge
     /\ \A q \in OpId : ops[q].pc \in {"none", "done"}
     /\ inst[ops[p].i].destroyCalls = 0)
    => /\ inst[ops[p].i].state = "action_required"
       /\ inst[ops[p].i].clientToken = "tok_3ds"

(* C5: when initialize() has resolved, the state is ready, isDestroyed is  *)
(* false, orderId is the order_id of the session response the instance     *)
(* used (requested or taken from the cache), and status-change(ready,      *)
(* initializing) was emitted exactly once, before the promise resolved.    *)
C5_ResolvedMeansReady ==
  \A i \in Inst :
    inst[i].pc = "resolved" =>
      LET log == inst[i].initLog
          r == Idx(log, LAMBDA e : IsEmit(e, "status-change") /\ e.a = "ready"
                                     /\ e.b = "initializing")
          s == Idx(log, LAMBDA e : IsSettle(e, "initialize"))
      IN /\ inst[i].state = "ready"
         /\ ~inst[i].isDestroyed
         /\ inst[i].orderId \in Orders
         /\ inst[i].orderId = inst[i].sessionResponse.order_id
         /\ Cardinality(r) = 1
         /\ Cardinality(s) = 1
         /\ \A x \in r, y \in s : x < y /\ log[y].ev = "resolved"

C5_Witness ==
  /\ inst[2].pc = "resolved" /\ inst[2].cached
  /\ inst[2].orderId = "ord_2" /\ inst[2].state = "ready"

(* C6: when initialize() has failed in session creation (request failure   *)
(* or error envelope), on a missing container, or in the provider (session *)
(* start or the render of a payment method), the state is error, exactly   *)
(* one error event was emitted and it carries the error the promise        *)
(* rejected with, and no status-change to ready was emitted.               *)
C6_InitializeFailureSurfaces ==
  \A i \in Inst :
    inst[i].pc = "rejected" =>
      LET log == inst[i].initLog
          s == Idx(log, LAMBDA e : IsSettle(e, "initialize"))
          er == Idx(log, LAMBDA e : IsEmit(e, "error"))
          rd == Idx(log, LAMBDA e : IsEmit(e, "status-change") /\ e.a = "ready")
      IN /\ Cardinality(s) = 1
         /\ \A y \in s :
              /\ log[y].ev = "rejected"
              /\ log[y].a # "Error:onInitialized" =>
                   /\ inst[i].state = "error"
                   /\ Cardinality(er) = 1
                   /\ \A x \in er : x < y /\ log[x].a = log[y].a
                   /\ rd = {}

C6_Witness ==
  \E i \in Inst :
    /\ inst[i].pc = "rejected" /\ inst[i].state = "error"
    /\ \E x, y \in 1..Len(inst[i].initLog) :
         /\ x < y
         /\ IsEmit(inst[i].initLog[x], "method-render")
         /\ IsSettle(inst[i].initLog[y], "initialize")
         /\ inst[i].initLog[y].a = "PrimerError:render"

(* C7: every emit invokes all the handlers registered for the event, with  *)
(* the emitted arguments, whether or not some of them raise, and returns   *)
(* true when there is at least one; after a status-change, success or      *)
(* purchase-failure listener raised, the state had already changed and the *)
(* orchestrator goes on with what follows the emit.                        *)
C7_ThrowingListenerIsContained ==
  \A k \in 1..Len(fx) :
    /\ fx[k].k = "emit" =>
         /\ CallsAfter(fx, k) = fx[k].n
         /\ fx[k].n > 0 => fx[k].h = "true"
         /\ \A j \in (k + 1)..(k + fx[k].n) :
              j <= Len(fx) /\ fx[j].k = "call" =>
                fx[j].ev = fx[k].ev /\ fx[j].a = fx[k].a /\ fx[j].b = fx[k].b
    /\ (fx[k].k = "caught"
        /\ fx[k].ev \in {"status-change", "success", "purchase-failure"}) =>
         /\ fx[k].ev = "status-change" => fx[k].st = fx[k].a
         /\ \E j \in (k + 1)..Len(fx) : fx[j].k \notin {"call", "caught"}

C7_Witness ==
  \E k \in 1..Len(fx) :
    /\ k < Len(fx)
    /\ fx[k].k = "caught" /\ fx[k].ev = "purchase-failure" /\ fx[k].h = "hB"
    /\ fx[k + 1].k = "call" /\ fx[k + 1].h = "hA"

(* C8: a destroy() call on an instance that is already destroyed returns   *)
(* at once and changes nothing (no teardown, no event); a destroy handler  *)
(* is invoked only in the step that makes the instance destroyed, and a    *)
(* destroyed instance stays destroyed, so the destroy event is delivered   *)
(* at most once.                                                           *)
C8_DestroyIsIdempotent ==
  [][\A i \in Inst :
       /\ (inst[i].isDestroyed /\ inst'[i].destroyCalls > inst[i].destroyCalls) =>
            /\ inst'[i] = [inst[i] EXCEPT !.destroyCalls = @ + 1]
            /\ Len(fx') = 1
            /\ IsSettle(fx'[1], "destroy") /\ fx'[1].ev = "resolved"
       /\ (inst[i].pc = "live" /\ Idx(fx', LAMBDA e : IsCall(e, "destroy")) # {}) =>
            /\ ~inst[i].isDestroyed /\ inst'[i].isDestroyed
            /\ Cardinality(Idx(fx', LAMBDA e : IsEmit(e, "destroy"))) = 1
       /\ inst[i].isDestroyed => inst'[i].isDestroyed
    ]_vars

C8_Witness ==
  /\ inst[1].isDestroyed /\ inst[1].destroyCalls = 2 /\ inst[1].destroying = <<>>
  /\ Len(fx) = 1
  /\ IsSettle(fx[1], "destroy") /\ fx[1].ev = "resolved"

(* C9: in the step that makes an instance destroyed, the provider teardown *)
(* has been done before, then the state is set to destroyed with its       *)
(* status-change while orderId is still set, then orderId and clientToken  *)
(* are null when destroy is emitted, then all listeners are removed; the   *)
(* destroy listeners registered before are each invoked once, in between,  *)
(* and afterwards listenerCount is 0 for every event.                      *)
C9_DestroyOrder ==
  [][\A i \in Inst :
       (~inst[i].isDestroyed /\ inst'[i].isDestroyed) =>
         LET f == fx'
             sc == Idx(f, LAMBDA e : IsEmit(e, "status-change") /\ e.a = "destroyed")
             de == Idx(f, LAMBDA e : IsEmit(e, "destroy"))
             ra == Idx(f, LAMBDA e : e.k = "removeAll")
             calls == SelectSeq(f, LAMBDA e : IsCall(e, "destroy"))
         IN /\ inst[i].destroyCallbacks = <<>> /\ ~inst[i].isInitialized
            /\ f[1].k = "awaited"
            /\ Cardinality(sc) = 1 /\ Cardinality(de) = 1 /\ Cardinality(ra) = 1
            /\ \A x \in sc, y \in de, z \in ra :
                 /\ x < y /\ y < z
                 /\ f[x].oid # NoVal
                 /\ f[y].st = "destroyed" /\ f[y].oid = NoVal
                 /\ \A k \in Idx(f, LAMBDA e : IsCall(e, "destroy")) : y < k /\ k < z
            /\ [k \in 1..Len(calls) |-> calls[k].h] = inst[i].events["destroy"]
            /\ \A e \in EventNames : listenerCount(inst'[i], e) = 0
            /\ inst'[i].state = "destroyed"
            /\ inst'[i].orderId = NoVal /\ inst'[i].clientToken = NoVal
    ]_vars

C9_Witness ==
  /\ inst[1].isDestroyed /\ inst[1].destroyCalls = 1
  /\ \E x, y, z \in 1..Len(fx) :
       /\ x < y /\ y < z
       /\ IsCall(fx[x], "destroy") /\ fx[x].h = "onDestroy"
       /\ IsCall(fx[y], "destroy") /\ fx[y].h = "skin"
       /\ fx[z].k = "removeAll"
  /\ \A e \in EventNames : listenerCount(inst[1], e) = 0

C11_DestructionIsTerminal ==
  \A i \in Inst :
    inst[i].isDestroyed
    => /\ inst[i].state = "destroyed"
       /\ inst[i].orderId = NoVal
       /\ inst[i].clientToken = NoVal

(* C12: an updatePrice() call made while the state is processing or        *)
(* action_required is rejected with a CheckoutError (a blank price with a  *)
(* ValidationError) and changes nothing: no update request, no event, the  *)
(* same state and priceId, the session cache untouched.                    *)
C12_UpdatePriceRefusedDuringPayment ==
  [][\A i \in Inst :
       (/\ inst'[i].priceCalls = inst[i].priceCalls + 1
        /\ inst[i].state \in {"processing", "action_required"})
       => /\ Len(fx') = 1
          /\ IsSettle(fx'[1], "updatePrice") /\ fx'[1].ev = "rejected"
          /\ fx'[1].a \in {"CheckoutError:processing", "ValidationError:priceId"}
          /\ inst'[i] = [inst[i] EXCEPT !.priceCalls = @ + 1]
          /\ sessionCache' = sessionCache]_vars

(* The part of C12 the code has: the same for the state processing alone.  *)
C12_RefusedWhileProcessing ==
  [][\A i \in Inst :
       (/\ inst'[i].priceCalls = inst[i].priceCalls + 1
        /\ inst[i].state = "processing")
       => /\ Len(fx') = 1
          /\ IsSettle(fx'[1], "updatePrice") /\ fx'[1].ev = "rejected"
          /\ fx'[1].a \in {"CheckoutError:processing", "ValidationError:priceId"}
          /\ inst'[i] = [inst[i] EXCEPT !.priceCalls = @ + 1]
          /\ sessionCache' = sessionCache]_vars

C14_SecondCheckoutUsesCache ==
  [][\A i \in Inst :
       (/\ inst[i].pc = "absent" /\ inst'[i].pc # "absent"
        /\ sessionCache[inst'[i].cacheKey].status # "none")
       => LET cachedResponse == sessionCache[inst'[i].cacheKey]
          IN /\ Idx(fx', LAMBDA e : e.k = "request") = {}
             /\ inst'[i].pc # "session"
             /\ inst'[i].cached
             /\ inst'[i].sessionResponse = cachedResponse
             /\ sessionCache' = sessionCache
             /\ \E j \in Inst :
                  /\ j < i /\ inst[j].cacheKey = inst'[i].cacheKey
                  /\ ~inst[j].cached
                  /\ inst[j].sessionResponse = cachedResponse
                  /\ inst'[i].orderId = inst[j].orderId
                  /\ inst'[i].clientToken = inst[j].clientToken
             /\ cachedResponse.status = "success"
                => /\ inst'[i].orderId = cachedResponse.order_id
                   /\ inst'[i].clientToken = cachedResponse.client_token]_vars

(* The second checkout has taken the first one's session from the cache.   *)
C14_Witness ==
  /\ inst[2].cached /\ ~inst[1].cached
  /\ inst[2].cacheKey = inst[1].cacheKey
  /\ inst[2].orderId = "ord_2" /\ inst[1].orderId = "ord_2"
  /\ inst[2].clientToken = inst[1].clientToken
  /\ inst[2].pc = "resolved"

(* C15: two checkouts with the same fingerprint never both have a session  *)
(* request in flight: the one that starts while the other's request is     *)
(* still out waits for that request instead of making its own.             *)
C15_OneSessionRequestInFlight ==
  \A i, j \in Inst :
    (i # j /\ inst[i].pc = "session" /\ inst[j].pc = "session")
    => inst[i].cacheKey # inst[j].cacheKey

(* C16: however the calls that initialize the provider's headless session  *)
(* overlap, createHeadless has been called at most once, and every caller  *)
(* that is waiting for the session waits for that one.                     *)
C16_OneCreateHeadlessCall ==
  /\ Cardinality({j \in Inst : headless.st[j] # "none"}) <= 1
  /\ \A i \in Inst : inst[i].pc = "headless" => inst[i].hl = headless.cur

(* C17: a checkout that is waiting for or has got its headless session has *)
(* the session that createHeadless made with its own clientToken and its   *)
(* own handlers.                                                           *)
C17_OwnHeadlessSession ==
  \A i \in Inst :
    inst[i].pc \in {"headless", "render", "resolved", "live"}
    => /\ inst[i].hl = i
       /\ headless.token[i] = inst[i].clientToken

(* C18: every change of state that a step made (each is announced by a     *)
(* status-change event carrying the new and the old state) is an edge of   *)
(* the state machine: initializing -> ready, ready -> processing,          *)
(* processing -> action_required, action_required -> processing,           *)
(* processing -> completed, processing -> ready, ready -> updating,        *)
(* updating -> ready, any state -> error, any state but destroyed ->       *)
(* destroyed.                                                              *)
C18_StateMachineEdges ==
  LET edges == {<<"initializing", "ready">>, <<"ready", "processing">>,
                <<"processing", "action_required">>,
                <<"action_required", "processing">>,
                <<"processing", "completed">>, <<"processing", "ready">>,
                <<"ready", "updating">>, <<"updating", "ready">>}
  IN \A k \in 1..Len(fx) :
       IsEmit(fx[k], "status-change")
       => \/ <<fx[k].b, fx[k].a>> \in edges
          \/ fx[k].a = "error"
          \/ fx[k].a = "destroyed" /\ fx[k].b # "destroyed"

RECURSIVE CalledAfter(_, _)
(* The handler invocations that directly follow position k: for each one   *)
(* the handler and the two arguments it was applied to.                    *)
CalledAfter(f, k) ==
  IF k + 1 > Len(f) \/ f[k + 1].k \notin {"call", "caught"} THEN <<>>
  ELSE (IF f[k + 1].k = "call"
        THEN << <<f[k + 1].h, f[k + 1].a, f[k + 1].b>> >> ELSE <<>>)
       \o CalledAfter(f, k + 1)

(* C19: every emit of a step invokes, before anything else happens, the    *)
(* handlers registered for the event when the step began, each once, in    *)
(* the order of their registration and with the arguments of the emit; so  *)
(* a bridged callback option, registered by the constructor, comes before  *)
(* the handlers registered later with on().                                *)
C19_EmitInRegistrationOrder ==
  [][\A k \in 1..Len(fx') :
       fx'[k].k = "emit"
       => LET handlers == inst[1].events[fx'[k].ev]
          IN /\ fx'[k].n = Len(handlers)
             /\ CalledAfter(fx', k) =
                  [x \in 1..Len(handlers) |-> <<handlers[x], fx'[k].a, fx'[k].b>>]]_vars

(* `success` was emitted on a checkout with an onSuccess option and a      *)
(* handler added with on(): onSuccess was invoked first, the handler       *)
(* after it, both with the emitted result.                                 *)
C19_Witness ==
  \E k, j \in 1..Len(fx) :
    /\ IsEmit(fx[k], "success") /\ fx[k].a = "result"
    /\ j = k + 1 /\ IsCall(fx[j], "success") /\ fx[j].h = "onSuccess"
    /\ fx[j].a = "result"
    /\ \E l \in (j + 1)..Len(fx) :
         IsCall(fx[l], "success") /\ fx[l].h = "hA" /\ fx[l].a = "result"

(* C20: off(event, handler) takes out the first registration of that       *)
(* handler for that event and nothing else: the other handlers of the      *)
(* event keep their order, the handlers of the other events stay, and a    *)
(* handler that was registered once is no longer registered; off(event)    *)
(* takes out all handlers of that event only; off with a function that is  *)
(* not registered for the event changes nothing.  An emit invokes exactly  *)
(* the handlers that are registered, so not a removed one.                 *)
C20_OffRemovesThatHandler ==
  [][/\ (fx' # <<>> /\ fx'[Len(fx')].k = "off")
        => LET e == fx'[Len(fx')].ev
               handler == fx'[Len(fx')].h
               old == inst[1].events[e]
               new == inst'[1].events[e]
               times == Cardinality({x \in 1..Len(old) : old[x] = handler})
           IN /\ inst'[1] = [inst[1] EXCEPT !.events[e] = new,
                                            !.listenCalls = @ + 1]
              /\ handler = NoVal => new = <<>>
              /\ (handler # NoVal /\ times = 0) => new = old
              /\ (handler # NoVal /\ times > 0)
                 => \E x \in 1..Len(old) :
                      /\ old[x] = handler
                      /\ \A y \in 1..(x - 1) : old[y] # handler
                      /\ new = [y \in 1..(Len(old) - 1) |->
                                  IF y < x THEN old[y] ELSE old[y + 1]]
              /\ (handler # NoVal /\ times = 1) => handler \notin Range(new)
     /\ \A k \in 1..Len(fx') :
          fx'[k].k = "emit"
          => {c[1] : c \in Range(CalledAfter(fx', k))}
               = Range(inst[1].events[fx'[k].ev])]_vars

(* On a checkout created with the callback options, onSuccess has been     *)
(* removed with off and `success` is then emitted: the handler added with  *)
(* on() is invoked, onSuccess is not, and onError is still registered.     *)
C20_Witness ==
  /\ fx # <<>> /\ IsEmit(fx[1], "success") /\ fx[1].n >= 1
  /\ "onError" \in Range(inst[1].events["error"])
  /\ "onSuccess" \notin Range(inst[1].events["success"])
  /\ "hA" \in Range(inst[1].events["success"])
  /\ \E k \in 1..Len(fx) : IsCall(fx[k], "success") /\ fx[k].h = "hA"
  /\ \A k \in 1..Len(fx) : fx[k].h # "onSuccess"

(* C21: a handler registered with once() is invoked at most once: its      *)
(* wrapper is applied at most once in a step, also when another handler    *)
(* emits the same event while the emit is going on, and a wrapper that has *)
(* been applied is registered no longer.                                   *)
C21_OnceHandlerRunsOnce ==
  \A w \in OnceWrappers :
    LET calls == {k \in 1..Len(fx) : fx[k].k = "call" /\ fx[k].h = w}
    IN /\ Cardinality(calls) <= 1
       /\ calls # {} => \A e \in EventNames : w \notin Range(inst[1].events[e])

InFlight(i) ==
  inst[i].submitting
  + Cardinality({p \in OpId : ops[p].i = i /\ ops[p].pc \in {"backend", "result"}})

LoaderChanges(f) ==
  SelectSeq(f, LAMBDA e : e.k = "emit" /\ e.ev = "loader-change")

(* C23: the counter of an instance is the number of its submit, tokenize   *)
(* and resume operations that have started and not finished, so it is      *)
(* never negative; a step that starts or ends an operation moves it by one *)
(* and emits exactly one `loader-change`, which carries true iff the       *)
(* counter is greater than zero after the change; no other step emits      *)
(* `loader-change`.  Hence when all operations have ended the counter is   *)
(* zero and the last `loader-change` carried false.                        *)
C23_LoaderFollowsBusyCounter ==
  /\ [](\A i \in Inst : inst[i].counter = InFlight(i) /\ inst[i].counter >= 0)
  /\ [][\A i \in Inst :
          LET changes == LoaderChanges(fx')
          IN IF inst'[i].counter = inst[i].counter
             THEN inst'[i] # inst[i] => changes = <<>>
             ELSE /\ inst'[i].counter \in {inst[i].counter + 1, inst[i].counter - 1}
                  /\ Len(changes) = 1
                  /\ changes[1].a = IF inst'[i].counter > 0 THEN "true" ELSE "false"
                  /\ inst'[i].counter = 0 => changes[1].a = "false"]_vars

(* A callback has ended on its failure path while another operation of the *)
(* instance is still running: the signal stays true.                       *)
C23_Witness ==
  /\ inst[1].counter = 1
  /\ \E k \in 1..Len(fx) : fx[k].k = "primer" /\ fx[k].ev = "handleFailure"
  /\ LoaderChanges(fx) # <<>> /\ LoaderChanges(fx)[1].a = "true"

(* C24: when the provider reports a deselection, `purchase-cancelled` is   *)
(* emitted iff the provider made no tokenize or resume callback (which     *)
(* start the backend call) since the method was selected; a deselection    *)
(* never emits `purchase-failure`.                                         *)
C24_CancelledOnlyBeforeBackendCall ==
  [][\A i \in Inst :
       (\E k \in 1..Len(fx') : fx'[k].k = "action"
                               /\ fx'[k].ev = "PAYMENT_METHOD_UNSELECTED")
       /\ inst[i].selected /\ ~inst'[i].selected
       => /\ (\E k \in 1..Len(fx') : fx'[k].k = "emit"
                                     /\ fx'[k].ev = "purchase-cancelled")
             <=> BackendCalls(i) = inst[i].callsAtSelect
          /\ \A k \in 1..Len(fx') :
               ~(fx'[k].k = "emit" /\ fx'[k].ev = "purchase-failure")]_vars

(* C25: a destroy() call that reaches the provider adapter's destroy()     *)
(* invokes every registered cleanup callback exactly once, also when some  *)
(* of them throw, raises nothing to its caller, and leaves the adapter     *)
(* with no cleanup callbacks and isInitialized = false.                    *)
C25_EveryCleanupRuns ==
  [][\A i \in Inst :
       inst'[i].destroyCalls = inst[i].destroyCalls + 1 /\ ~inst[i].isDestroyed
       => /\ \A k \in 1..Len(inst[i].destroyCallbacks) :
               Len(SelectSeq(fx', LAMBDA e : e.k = "cleanup"
                                   /\ e.ev = inst[i].destroyCallbacks[k])) = 1
          /\ Len(inst'[i].destroying) = Len(inst[i].destroying) + 1
          /\ inst'[i].destroying[Len(inst'[i].destroying)].exc = "none"
          /\ inst'[i].destroyCallbacks = <<>>
          /\ ~inst'[i].isInitialized]_vars

(* C25, the part the adapter keeps: destroy() raises nothing to its caller *)
(* and leaves no cleanup callbacks and isInitialized = false.              *)
C25_TeardownNeverThrows ==
  [][\A i \in Inst :
       inst'[i].destroyCalls = inst[i].destroyCalls + 1 /\ ~inst[i].isDestroyed
       => /\ Len(inst'[i].destroying) = Len(inst[i].destroying) + 1
          /\ inst'[i].destroying[Len(inst'[i].destroying)].exc = "none"
          /\ inst'[i].destroyCallbacks = <<>>
          /\ ~inst'[i].isInitialized]_vars

(* C26: a tokenize or resume callback that has returned has resolved; and  *)
(* when its business logic raised (the backend call was rejected, the      *)
(* response was an error envelope, or processPaymentResponse refused the   *)
(* response), the provider's handleFailure was called and a                *)
(* purchase-failure event was emitted by that callback.                    *)
C26_ExceptionBecomesFailureSignal ==
  ret.pc = "done"
    => /\ ret.settled = "resolved"
       /\ ret.result \notin {"token", "succeeded", "processing"}
            => ret.hf >= 1 /\ ret.pf >= 1

(* A tokenize callback whose response processPaymentResponse refused.      *)
C26_Witness ==
  /\ ret.pc = "done" /\ ret.kind = "tokenize" /\ ret.result = "failed"
  /\ ret.settled = "resolved" /\ ret.hf = 1 /\ ret.pf = 1

(* C27: when the backend call of a callback returns an error envelope, the *)
(* purchase-failure event emitted for it carries the envelope's error code *)
(* (the errorCode of the APIError made from it) together with its message. *)
C27_FailureCarriesErrorCode ==
  \A j, k \in 1..Len(fx) :
    /\ fx[j].k = "backend" /\ fx[j].ev = "error_envelope"
    /\ fx[k].k = "emit" /\ fx[k].ev = "purchase-failure"
    => /\ fx[k].a = "APIError:double_purchase"
       /\ fx[k].b = errorCode("APIError:double_purchase")

(* C27, the part the code keeps: the event is emitted with the message of  *)
(* the error made from the envelope.                                       *)
C27_FailureCarriesMessage ==
  \A j \in 1..Len(fx) :
    fx[j].k = "backend" /\ fx[j].ev = "error_envelope"
    => \E k \in 1..Len(fx) : /\ fx[k].k = "emit" /\ fx[k].ev = "purchase-failure"
                             /\ fx[k].a = "APIError:double_purchase"

(* The grace-window timer of callback p calls the provider's handleFailure *)
(* in the step with effects f.                                             *)
StillProcessing(f, p) ==
  \E k \in 1..Len(f) : /\ f[k].k = "primer" /\ f[k].ev = "handleFailure"
                       /\ f[k].a = "still processing" /\ f[k].n = p

(* C28: a callback whose backend result is `processing` has emitted a      *)
(* purchase-failure event and left the state ready when it returns; the    *)
(* timer it set eventually calls the provider's handleFailure, and does so *)
(* exactly once.                                                           *)
C28_ProcessingIsSoftFailure ==
  /\ [](ret.pc = "done" /\ ret.result = "processing"
          => inst[ret.i].state = "ready" /\ ret.pf >= 1)
  /\ \A p \in OpId : ops[p].timer ~> (~ops[p].timer /\ StillProcessing(fx, p))
  /\ [][\A p \in OpId :
          StillProcessing(fx', p) => ops[p].timer /\ ~ops'[p].timer]_vars

(* C28, the part the code keeps: the state is ready when the callback      *)
(* returns, and the timer calls handleFailure eventually and exactly once. *)
C28_GraceWindowFailureOnce ==
  /\ [](ret.pc = "done" /\ ret.result = "processing"
          => inst[ret.i].state = "ready" /\ ret.timer)
  /\ \A p \in OpId : ops[p].timer ~> (~ops[p].timer /\ StillProcessing(fx, p))
  /\ [][\A p \in OpId :
          /\ StillProcessing(fx', p) => ops[p].timer /\ ~ops'[p].timer
          /\ ops[p].pc = "done" /\ ~ops[p].timer => ~ops'[p].timer]_vars

(* C29: a backend call makes at most RETRY_ATTEMPTS attempts; it resolves  *)
(* with the first attempt that succeeds and makes none after it; an        *)
(* attempt that failed or timed out is followed by another after a wait of *)
(* baseDelay * 2^(k-1), k the attempt's number, and the last attempt by no *)
(* wait; when every attempt has failed the call rejects, with the APIError *)
(* of the last attempt or else with a NetworkError; and every call that    *)
(* has started resolves or rejects.                                        *)
C29_BoundedRetry ==
  /\ [](/\ req.attempt <= RETRY_ATTEMPTS
        /\ Len(req.log) = IF req.pc = "attempt" THEN req.attempt - 1 ELSE req.attempt
        /\ \A k \in 1..Len(req.log) :
             req.log[k] = "ok" => k = Len(req.log) /\ req.pc = "resolved"
        /\ req.pc = "resolved" => req.log[Len(req.log)] = "ok"
        /\ req.pc # "idle"
             => Len(req.waits) = IF req.pc = "sleep" THEN req.attempt
                                 ELSE req.attempt - 1
        /\ \A k \in 1..Len(req.waits) : req.waits[k] = baseDelay * 2 ^ (k - 1)
        /\ req.pc = "rejected"
             => /\ Len(req.log) = RETRY_ATTEMPTS
                /\ Len(req.waits) = RETRY_ATTEMPTS - 1
                /\ req.outcome = IF req.log[RETRY_ATTEMPTS] = "APIError"
                                 THEN "APIError" ELSE "NetworkError")
  /\ (req.pc \in {"attempt", "sleep"}) ~> (req.pc \in {"resolved", "rejected"})

(* A call whose first and last attempts timed out and whose second failed  *)
(* in fetch: it slept 1000 and 2000 ms and rejected with a NetworkError.   *)
C29_Witness ==
  /\ req.pc = "rejected"
  /\ req.log = <<"Error", "NetworkError", "Error">>
  /\ req.waits = <<1000, 2000>>
  /\ req.outcome = "NetworkError"

(* C30: the interpretation of a payment envelope depends on the envelope   *)
(* only and is defined for every envelope: an error envelope throws;       *)
(* otherwise a present action-required token gives action_required with    *)
(* that token whatever the checkout_status; otherwise succeeded gives      *)
(* success, failed and cancelled throw, processing gives the processing    *)
(* variant, any other status throws an unhandled-status error, and no      *)
(* status throws too.                                                      *)
C30_PaymentResponseInterpretation ==
  req.pc = "interpreted" =>
    LET r == req.outcome
        e == fx[1]
        present(x) == x \notin {NoVal, ""}
        throws == e.ev = "none" /\ e.h # "none"
        returns(type) == e.ev = type /\ e.h = "none" /\ e.a = r.order_id
    IN /\ Len(fx) = 1 /\ e.k = "result"
       /\ throws \/ e.ev \in {"action_required", "success", "processing"}
       /\ r.status = "error" => throws
       /\ r.status # "error" /\ present(r.action_required_token)
            => returns("action_required") /\ e.b = r.action_required_token
       /\ r.status # "error" /\ ~present(r.action_required_token)
            => /\ r.checkout_status = "succeeded"
                    => returns("success") /\ e.b = "succeeded"
               /\ r.checkout_status \in {"failed", "cancelled"} => throws
               /\ r.checkout_status = "processing"
                    => returns("processing") /\ e.b = "processing"
               /\ present(r.checkout_status)
                  /\ r.checkout_status \notin {"succeeded", "failed", "cancelled",
                                               "processing"}
                    => throws /\ e.h = "APIError:unhandled_status"
               /\ ~present(r.checkout_status) => throws

(* A token together with the terminal status failed: the token wins.       *)
C30_Witness ==
  /\ req.pc = "interpreted"
  /\ req.outcome.action_required_token = "tok_3ds"
  /\ req.outcome.checkout_status = "failed"
  /\ fx[1].ev = "action_required" /\ fx[1].b = "tok_3ds"

(* C31: every `error` event delivered to a listener (the onError callback  *)
(* included) carries an error, never an undefined payload; and a step in   *)
(* which the provider announces a purchase start or a method selection     *)
(* delivers no `error` event.                                              *)
C31_ErrorEventCarriesError ==
  \A k \in 1..Len(fx) :
    fx[k].k = "call" /\ fx[k].ev = "error"
    => /\ fx[k].a # NoVal
       /\ \A j \in 1..Len(fx) : fx[j].k # "action"

(* C32: once the provider has reported its payment methods to an           *)
(* instance's wrapper, availableMethods holds exactly the allow-listed     *)
(* methods among the reported ones, without Google Pay when Apple Pay was  *)
(* reported, each once and in allow-list order; and the error `No allowed  *)
(* payment methods found` is raised iff that list is empty.                *)
C32_AvailableMethods ==
  \A i \in Inst :
    headless.st[i] = "resolved" =>
      LET reported == Range(inst[i].items)
          methods == inst[i].availableMethods
          pos(m) == CHOOSE n \in 1..Len(ALLOWED_PAYMENT_METHODS) :
                      ALLOWED_PAYMENT_METHODS[n] = m
      IN /\ Range(methods) =
              (reported \cap Range(ALLOWED_PAYMENT_METHODS))
                \ (IF ApplePay \in reported THEN {GooglePay} ELSE {})
         /\ \A a, b \in 1..Len(methods) :
              a < b => pos(methods[a]) < pos(methods[b])
         /\ methods = <<>>
              <=> \E k \in 1..Len(fx) :
                    /\ fx[k].k = "thrown"
                    /\ fx[k].a = "PrimerError:No allowed payment methods found"

(* The provider reports Google Pay, a method that is not allow-listed, and *)
(* Apple Pay: only Apple Pay is available.                                 *)
C32_Witness ==
  /\ headless.st[1] = "resolved"
  /\ inst[1].items = <<GooglePay, "KLARNA", ApplePay>>
  /\ inst[1].availableMethods = <<ApplePay>>

(***************************************************************************)
(* C33                                                                     *)
(***************************************************************************)
SomeCallerWaits == \E c \in Callers : sdk.callers[c] = "waiting"

(* What a call of ensurePrimerLoaded() by caller c changes.                *)
LoaderCalled(c) == sdk'.calls = sdk.calls + 1 /\ sdk'.callers[c] # sdk.callers[c]

SharedLoad ==
  /\ sdk.cssInjected <= 1 /\ sdk.scriptInjected <= 1
  /\ SomeCallerWaits => sdk.loadingPromise = "pending" /\ ~sdk.isLoaded
  /\ (\E c \in Callers : sdk.callers[c] = "rejected") /\ ~SomeCallerWaits
       => sdk.loadingPromise = "null" \/ sdk.isLoaded

LoaderSteps ==
  /\ sdk.primer /\ sdk'.calls = sdk.calls + 1
       => /\ \A c \in Callers : sdk'.callers[c] \in {sdk.callers[c], "resolved"}
          /\ sdk'.loads = sdk.loads
          /\ sdk'.cssInjected = sdk.cssInjected
          /\ sdk'.scriptInjected = sdk.scriptInjected
  /\ sdk'.calls = sdk.calls + 1 /\ sdk.loadingPromise = "null"
       /\ ~sdk.primer /\ ~sdk.isLoaded
       => sdk'.loads = sdk.loads + 1
  /\ \A c, d \in Callers :
       sdk.callers[c] = "waiting" /\ sdk.callers[d] = "waiting"
         /\ sdk'.callers[c] # "waiting"
       => sdk'.callers[d] = sdk'.callers[c]

(* The step fails a waiting caller.                                        *)
CallerFails == \E c \in Callers : sdk.callers[c] = "waiting" /\ sdk'.callers[c] = "rejected"

(* C33: a call of ensurePrimerLoaded() always terminates: it is a no-op    *)
(* when the provider global is present; otherwise the concurrent callers   *)
(* share one load, whose assets are injected at most once, and no caller   *)
(* is still waiting once the bounded timeout has passed since the load     *)
(* started; after a failure a later call starts a fresh load.              *)
C33_LoadEndsWithinTimeout ==
  /\ [](SharedLoad /\ (SomeCallerWaits => sdk.age <= TimeoutPolls + 1))
  /\ [][LoaderSteps]_vars
  /\ \A c \in Callers : (sdk.callers[c] = "waiting") ~> (sdk.callers[c] # "waiting")

(* C33, the part that holds: the timeout bounds the polling for the        *)
(* global, which starts when both assets have loaded; a caller fails only  *)
(* when the global is absent or the stylesheet failed to load; and if the  *)
(* browser settles the requests of both tags every caller's promise        *)
(* settles.                                                                *)
C33_PollingEndsWithinTimeout ==
  /\ [](SharedLoad /\ (sdk.wait = "polling" => sdk.elapsed <= TimeoutPolls))
  /\ [][LoaderSteps /\ (CallerFails => ~sdk'.primer \/ sdk'.css = "error")]_vars
  /\ ([]<>(sdk.css # "loading") /\ []<>(sdk.script # "loading"))
       => \A c \in Callers : (sdk.callers[c] = "waiting") ~> (sdk.callers[c] # "waiting")

(***************************************************************************)
(* C34                                                                     *)
(***************************************************************************)
(* The status-change emissions of a step, in order.                        *)
StatusChanges(f) == SelectSeq(f, LAMBDA e : IsEmit(e, "status-change"))

(* C34: every change of the state is paired, in the same step, with        *)
(* exactly one status-change(newState, oldState) emission with newState #  *)
(* oldState, and a _setState to the current value emits nothing: the       *)
(* emissions of a step chain from the state before the step to the state   *)
(* after it, so each oldState is the newState of the emission before it    *)
(* (the first oldState being initializing), and every listener of the      *)
(* event is applied to the same pair while getStatus().state is newState.  *)
C34_StatusChangePairedWithState ==
  [][LET e == StatusChanges(fx')
     IN /\ \A k \in 1..Len(e) :
             /\ e[k].a # e[k].b
             /\ e[k].st = e[k].a
             /\ e[k].b = IF k = 1 THEN inst[1].state ELSE e[k - 1].a
        /\ inst'[1].state = IF e = <<>> THEN inst[1].state ELSE e[Len(e)].a
        /\ \A k \in Idx(fx', LAMBDA x : IsCall(x, "status-change")) :
             /\ fx'[k].st = fx'[k].a
             /\ \E j \in 1..(k - 1) :
                  /\ IsEmit(fx'[j], "status-change")
                  /\ fx'[j].a = fx'[k].a /\ fx'[j].b = fx'[k].b
                  /\ \A m \in (j + 1)..(k - 1) : fx'[m].k \in {"call", "caught"}
        /\ inst[1].pc = "absent" => inst[1].state = "initializing"]_vars

(* A callback fails: the onStatusChange bridge registered at construction  *)
(* hears processing -> error -> ready in one step.                         *)
C34_Witness ==
  LET e == StatusChanges(fx)
  IN /\ Len(e) >= 2
     /\ e[1].a = "error" /\ e[2].a = "ready" /\ e[2].b = "error"
     /\ \E k \in 1..Len(fx) : IsCall(fx[k], "status-change") /\ fx[k].h = "onStatusChange"
                                /\ fx[k].a = "ready"

(***************************************************************************)
(* C35                                                                     *)
(***************************************************************************)
(* C35: only successful session responses enter the session cache: after   *)
(* a session failure, a request failure or an envelope of status error,    *)
(* the cache holds nothing for the fingerprint, so that a later checkout   *)
(* with the same fingerprint calls the backend again.                      *)
C35_OnlySuccessfulSessionsCached ==
  \A key \in Keys : sessionCache[key].status \in {"none", "success"}

(* C35, the part that holds: a request that fails leaves the cache alone;  *)
(* the cache changes only when createClientSession resolves, and then to   *)
(* the envelope it resolved with.                                          *)
C35_FailedRequestNotCached ==
  [][\A key \in Keys :
       sessionCache'[key] # sessionCache[key]
         => /\ sessionCache'[key] \in SessionResponses
            /\ \E i \in Inst : /\ inst[i].pc = "session"
                               /\ inst[i].cacheKey = key
                               /\ inst'[i].pc # "session"]_vars

(***************************************************************************)
(* C36                                                                     *)
(***************************************************************************)
(* Initialization of instance i has set the state ready after emitting a   *)
(* method-render, or has not set it ready.                                 *)
RenderedBeforeReady(i) ==
  \A k \in 1..Len(inst[i].initLog) :
    IsEmit(inst[i].initLog[k], "status-change") /\ inst[i].initLog[k].a = "ready"
    => \E j \in 1..(k - 1) : IsEmit(inst[i].initLog[j], "method-render")

(* C36: whenever initialization sets the state ready, at least one         *)
(* method-render has been emitted for that instance before; for the first  *)
(* checkout of the page and for every later one.                           *)
C36_MethodRenderBeforeReady == \A i \in Inst : RenderedBeforeReady(i)

(* C36, the part that holds: the checkout whose call created the headless  *)
(* session renders a method before it is ready.                            *)
C36_SessionOwnerRendersBeforeReady ==
  \A i \in Inst : inst[i].hl = i => RenderedBeforeReady(i)

(***************************************************************************)
(* C37                                                                     *)
(***************************************************************************)
(* C37: a failed creation of the headless session is not remembered: the   *)
(* static PrimerWrapper.headless never holds a promise that has rejected,  *)
(* and a checkout that reaches createHeadlessCheckout after a failure does *)
(* not take the failed session but calls createHeadless again.             *)
C37_FailedHeadlessNotRemembered ==
  /\ [](headless.cur # 0 => headless.st[headless.cur] # "rejected")
  /\ [][\A i \in Inst :
          inst[i].pc = "primer" /\ inst'[i].pc = "headless"
          => headless.st[inst'[i].hl] # "rejected"]_vars

(***************************************************************************)
(* C38                                                                     *)
(***************************************************************************)
(* The tokenize and resume callbacks of instance i whose create-payment or *)
(* resume-payment request is out.                                          *)
BackendInFlight(i) == {p \in OpId : ops[p].i = i /\ ops[p].pc = "backend"}

(* C38: whenever a create-payment or resume-payment call of an instance is *)
(* in flight its state is processing, also when operations overlap and one *)
(* of them, or the submit wrapper of the card form, finishes first.        *)
C38_ProcessingWhileBackendCallInFlight ==
  \A i \in Inst : BackendInFlight(i) # {} => inst[i].state = "processing"

(* C38, the part that holds: the state is processing when a callback sends *)
(* its request, and stays so until the response of some callback of the    *)
(* instance is processed, or a callback or the submit wrapper finishes.    *)
C38_ProcessingWhenBackendCallStarts ==
  [][\A i \in Inst :
       /\ BackendInFlight(i)' \ BackendInFlight(i) # {}
            => inst'[i].state = "processing"
       /\ (/\ BackendInFlight(i)' # {} /\ inst[i].state = "processing"
           /\ inst'[i].state # "processing")
            => \/ inst'[i].submitting < inst[i].submitting
               \/ \E p \in OpId : ops[p].i = i /\ ops[p].pc \in {"backend", "result"}
                                    /\ ops'[p].pc # ops[p].pc]_vars

(***************************************************************************)
(* C39                                                                     *)
(***************************************************************************)
(* The signals that callback p gave its provider handler in effects f.     *)
Signals(f, p) == SelectSeq(f, LAMBDA e : e.k = "primer" /\ e.n = p)

(* C39: the provider handler of each tokenize or resume callback receives  *)
(* exactly one signal among handleSuccess, handleFailure and               *)
(* continueWithNewClientToken, once, and it is eventually delivered: a     *)
(* callback that is running has given at most one; when it returns it has  *)
(* given one, or none and set the grace timer of a `processing` result;    *)
(* after it has returned the only signal is the handleFailure of the       *)
(* timer, once; every callback returns and every timer fires.              *)
C39_ExactlyOneSignalPerCallback ==
  /\ [](/\ \A p \in OpId : ops[p].hs + ops[p].hf + ops[p].cont <= 1
        /\ ret.pc = "done"
             => /\ ret.hs + ret.hf + ret.cont + (IF ret.timer THEN 1 ELSE 0) = 1
                /\ ret.timer => ret.result = "processing")
  /\ [][\A p \in OpId :
          /\ ops[p].pc \in {"none", "done"} /\ ops'[p].pc = ops[p].pc
               /\ Signals(fx', p) # <<>>
               => /\ ops[p].timer /\ ~ops'[p].timer
                  /\ Len(Signals(fx', p)) = 1
                  /\ Signals(fx', p)[1].ev = "handleFailure"
          /\ ops[p].pc = "done" /\ ~ops[p].timer => ~ops'[p].timer]_vars
  /\ \A p \in OpId :
       /\ (ops[p].pc \in {"backend", "result"}) ~> (ops[p].pc = "done")
       /\ ops[p].timer ~> (~ops[p].timer /\ Signals(fx, p) # <<>>)

(* A callback returned with a `processing` result and no signal, and its   *)
(* timer has then called handleFailure.                                    *)
C39_Witness ==
  \E p \in OpId :
    /\ ops[p].pc = "done" /\ ~ops[p].timer
    /\ Len(Signals(fx, p)) = 1 /\ Signals(fx, p)[1].ev = "handleFailure"
    /\ Signals(fx, p)[1].a = "still processing"

(***************************************************************************)
(* C40                                                                     *)
(***************************************************************************)
(* C40: the create-payment call of a tokenize callback sends no further    *)
(* request for its token once an earlier request for it has reached the    *)
(* backend, for instance one whose response came after the timeout.        *)
C40_NoResendAfterBackendReached ==
  req.endpoint = "create_payment"
  => \A k \in 1..Len(req.reached) : req.reached[k] => req.attempt <= k

(* C40, the part that holds: no request is sent after one whose response   *)
(* arrived in time and was accepted by _makeRequest.                       *)
C40_NoResendAfterResponse ==
  req.endpoint = "create_payment"
  => \A k \in 1..Len(req.log) :
       req.log[k] = "ok" => req.attempt = k /\ Len(req.log) = k /\ req.pc = "resolved"

====
